---- MODULE Spec2Model ----
(***************************************************************************)
(* A model of the Kokoro text-to-speech service of IPA-Navigator: the      *)
(* synthesis orchestrator KokoroTTS::process_tts with its LRU+TTL cache    *)
(* and its locks, the HTTP handler synthesize_speech in front of it, and   *)
(* the pure helpers they call (normalize_text, generate_cache_key,         *)
(* tokenize).                                                              *)
(*                                                                         *)
(* Text is modelled as a sequence of characters, one string per character; *)
(* a character outside ASCII is written by its code point ("U+2018").      *)
(* An f32 speed is modelled in tenths: 5 is 0.5, 10 is 1.0, 21 is 2.1.     *)
(***************************************************************************)
EXTENDS Integers, Sequences, FiniteSets, TLC

(***************************************************************************)
(* voices.rs: the closed catalogue of voices.                              *)
(***************************************************************************)
AmericanFemaleVoice == { "Bella", "Nicole", "Sky" }

AmericanMaleVoice == { "Fenrir", "Michael", "Puck" }

BritishFemaleVoice == { "Emma", "Isabella", "Lily" }

BritishMaleVoice == { "Fable", "George", "Lewis" }

VoiceType == AmericanFemaleVoice \cup AmericanMaleVoice \cup BritishFemaleVoice \cup BritishMaleVoice

\* voices.rs, lines 83-98: the catalogue, in its order
ALL_VOICES ==
    << "Bella", "Nicole", "Sky", "Fenrir", "Michael", "Puck",
       "Emma", "Isabella", "Lily", "Fable", "George", "Lewis" >>

\* VoiceType::file_name
file_name(voice) ==
    CASE voice = "Bella" -> << "a", "f", "_", "b", "e", "l", "l", "a", ".", "b", "i", "n" >>
      [] voice = "Nicole" -> << "a", "f", "_", "n", "i", "c", "o", "l", "e", ".", "b", "i", "n" >>
      [] voice = "Sky" -> << "a", "f", "_", "s", "k", "y", ".", "b", "i", "n" >>
      [] voice = "Fenrir" -> << "a", "m", "_", "f", "e", "n", "r", "i", "r", ".", "b", "i", "n" >>
      [] voice = "Michael" -> << "a", "m", "_", "m", "i", "c", "h", "a", "e", "l", ".", "b", "i", "n" >>
      [] voice = "Puck" -> << "a", "m", "_", "p", "u", "c", "k", ".", "b", "i", "n" >>
      [] voice = "Emma" -> << "b", "f", "_", "e", "m", "m", "a", ".", "b", "i", "n" >>
      [] voice = "Isabella" -> << "b", "f", "_", "i", "s", "a", "b", "e", "l", "l", "a", ".", "b", "i", "n" >>
      [] voice = "Lily" -> << "b", "f", "_", "l", "i", "l", "y", ".", "b", "i", "n" >>
      [] voice = "Fable" -> << "b", "m", "_", "f", "a", "b", "l", "e", ".", "b", "i", "n" >>
      [] voice = "George" -> << "b", "m", "_", "g", "e", "o", "r", "g", "e", ".", "b", "i", "n" >>
      [] voice = "Lewis" -> << "b", "m", "_", "l", "e", "w", "i", "s", ".", "b", "i", "n" >>

\* VoiceType::language
language(voice) ==
    IF voice \in AmericanFemaleVoice \cup AmericanMaleVoice THEN "en-us" ELSE "en-gb"

(***************************************************************************)
(* handlers/tts.rs: parse_voice.  The result is Ok(voice) or Err.          *)
(***************************************************************************)
parse_voice(voice_str) ==
    CASE voice_str = "american_female_bella" -> [ok |-> TRUE, voice |-> "Bella"]
      [] voice_str = "american_female_nicole" -> [ok |-> TRUE, voice |-> "Nicole"]
      [] voice_str = "american_female_sky" -> [ok |-> TRUE, voice |-> "Sky"]
      [] voice_str = "american_male_fenrir" -> [ok |-> TRUE, voice |-> "Fenrir"]
      [] voice_str = "american_male_michael" -> [ok |-> TRUE, voice |-> "Michael"]
      [] voice_str = "american_male_puck" -> [ok |-> TRUE, voice |-> "Puck"]
      [] voice_str = "british_female_emma" -> [ok |-> TRUE, voice |-> "Emma"]
      [] voice_str = "british_female_isabella" -> [ok |-> TRUE, voice |-> "Isabella"]
      [] voice_str = "british_female_lily" -> [ok |-> TRUE, voice |-> "Lily"]
      [] voice_str = "british_male_fable" -> [ok |-> TRUE, voice |-> "Fable"]
      [] voice_str = "british_male_george" -> [ok |-> TRUE, voice |-> "George"]
      [] voice_str = "british_male_lewis" -> [ok |-> TRUE, voice |-> "Lewis"]
      [] OTHER -> [ok |-> FALSE, voice |-> "Unsupported voice"]

(***************************************************************************)
(* vocab.rs: the symbol table.                                             *)
(***************************************************************************)
pad ==
    << "$" >>

punctuation ==
    << ";", ":", ",", ".", "!", "?", "U+00A1", "U+00BF", "U+2014", "U+2026",
    "\"", "U+00AB", "U+00BB", "U+201C", "U+201D", " " >>

letters ==
    << "A", "B", "C", "D", "E", "F", "G", "H", "I", "J",
    "K", "L", "M", "N", "O", "P", "Q", "R", "S", "T",
    "U", "V", "W", "X", "Y", "Z", "a", "b", "c", "d",
    "e", "f", "g", "h", "i", "j", "k", "l", "m", "n",
    "o", "p", "q", "r", "s", "t", "u", "v", "w", "x",
    "y", "z" >>

letters_ipa ==
    << "U+0251", "U+0250", "U+0252", "U+00E6", "U+0253", "U+0299", "U+03B2", "U+0254", "U+0255", "U+00E7",
    "U+0257", "U+0256", "U+00F0", "U+02A4", "U+0259", "U+0258", "U+025A", "U+025B", "U+025C", "U+025D",
    "U+025E", "U+025F", "U+0284", "U+0261", "U+0260", "U+0262", "U+029B", "U+0266", "U+0267", "U+0127",
    "U+0265", "U+029C", "U+0268", "U+026A", "U+029D", "U+026D", "U+026C", "U+026B", "U+026E", "U+029F",
    "U+0271", "U+026F", "U+0270", "U+014B", "U+0273", "U+0272", "U+0274", "U+00F8", "U+0275", "U+0278",
    "U+03B8", "U+0153", "U+0276", "U+0298", "U+0279", "U+027A", "U+027E", "U+027B", "U+0280", "U+0281",
    "U+027D", "U+0282", "U+0283", "U+0288", "U+02A7", "U+0289", "U+028A", "U+028B", "U+2C71", "U+028C",
    "U+0263", "U+0264", "U+028D", "U+03C7", "U+028E", "U+028F", "U+0291", "U+0290", "U+0292", "U+0294",
    "U+02A1", "U+0295", "U+02A2", "U+01C0", "U+01C1", "U+01C2", "U+01C3", "U+02C8", "U+02CC", "U+02D0",
    "U+02D1", "U+02BC", "U+02B4", "U+02B0", "U+02B1", "U+02B2", "U+02B7", "U+02E0", "U+02E4", "U+02DE",
    "U+2193", "U+2191", "U+2192", "U+2197", "U+2198", "'", "U+0329", "'", "U+1D7B" >>

symbols == pad \o punctuation \o letters \o letters_ipa

\* VOCABULARY: collecting (char, idx) pairs into a HashMap keeps, for a
\* character that occurs twice in symbols, the index of its last occurrence.
InVocabulary(c) == \E i \in 1..Len(symbols) : symbols[i] = c

VOCABULARY(c) ==
    (CHOOSE i \in 1..Len(symbols) :
        /\ symbols[i] = c
        /\ \A j \in 1..Len(symbols) : symbols[j] = c => j <= i) - 1

\* a reverse table built from the first occurrence of each character
InReverseVocabulary_first(t) ==
    /\ t \in 0..(Len(symbols) - 1)
    /\ \A j \in 1..t : symbols[j] # symbols[t + 1]

\* REVERSE_VOCABULARY: the pairs (idx, c) of the entries of VOCABULARY; an
\* index is a key when it is the index VOCABULARY keeps for its character
InReverseVocabulary(t) ==
    /\ t \in 0..(Len(symbols) - 1)
    /\ VOCABULARY(symbols[t + 1]) = t

REVERSE_VOCABULARY(t) == symbols[t + 1]

(***************************************************************************)
(* tokenize.rs                                                             *)
(***************************************************************************)
\* a tokenizer that puts the pad token in the place of an unknown character
RECURSIVE tokenize_substituting(_)
tokenize_substituting(phonemes) ==
    IF phonemes = << >> THEN << >>
    ELSE IF InVocabulary(Head(phonemes))
         THEN << VOCABULARY(Head(phonemes)) >> \o tokenize_substituting(Tail(phonemes))
         ELSE << 0 >> \o tokenize_substituting(Tail(phonemes))

RECURSIVE tokenize(_)
tokenize(phonemes) ==
    IF phonemes = << >> THEN << >>
    ELSE IF InVocabulary(Head(phonemes))
         THEN << VOCABULARY(Head(phonemes)) >> \o tokenize(Tail(phonemes))
         ELSE tokenize(Tail(phonemes))

\* lines 13-18: the characters of the tokens that REVERSE_VOCABULARY holds
RECURSIVE tokens_to_phonemes(_)
tokens_to_phonemes(toks) ==
    IF toks = << >> THEN << >>
    ELSE IF InReverseVocabulary(Head(toks))
         THEN << REVERSE_VOCABULARY(Head(toks)) >> \o tokens_to_phonemes(Tail(toks))
         ELSE tokens_to_phonemes(Tail(toks))

(***************************************************************************)
(* normalize.rs: normalize_text.  Each regex replace_all is a left-to-     *)
(* right scan for non-overlapping matches in the text it is given.         *)
(***************************************************************************)
IsSpace(c) == c \in { " ", "\t", "\n", "\r" }

IsDigit(c) == c \in { "0", "1", "2", "3", "4", "5", "6", "7", "8", "9" }

\* \w, which decides the word boundary \b
IsWord(c) == IsDigit(c) \/ c = "_" \/ \E i \in 1..Len(letters) : letters[i] = c

\* the last index of the run of whitespace (of digits) that starts at i
RECURSIVE SpaceRunEnd(_, _)
SpaceRunEnd(s, i) == IF i < Len(s) /\ IsSpace(s[i + 1]) THEN SpaceRunEnd(s, i + 1) ELSE i

RECURSIVE DigitRunEnd(_, _)
DigitRunEnd(s, i) == IF i < Len(s) /\ IsDigit(s[i + 1]) THEN DigitRunEnd(s, i + 1) ELSE i

\* whitespace_re: \s+ -> " "
RECURSIVE CollapseWhitespace(_, _)
CollapseWhitespace(s, i) ==
    IF i > Len(s) THEN << >>
    ELSE IF IsSpace(s[i])
         THEN << " " >> \o CollapseWhitespace(s, SpaceRunEnd(s, i) + 1)
         ELSE << s[i] >> \o CollapseWhitespace(s, i + 1)

\* the four typographic quotes
FoldQuote(c) ==
    CASE c = "U+2018" -> "'"
      [] c = "U+2019" -> "'"
      [] c = "U+201C" -> "\""
      [] c = "U+201D" -> "\""
      [] OTHER -> c

FoldQuotes(s) == [ i \in 1..Len(s) |-> FoldQuote(s[i]) ]

abbrev_expansions ==
    << << << "D", "r", "." >>, << "D", "o", "c", "t", "o", "r" >> >>,
       << << "M", "r", "." >>, << "M", "i", "s", "t", "e", "r" >> >>,
       << << "M", "r", "s", "." >>, << "M", "i", "s", "s", "u", "s" >> >>,
       << << "M", "s", "." >>, << "M", "i", "s", "s" >> >>,
       << << "S", "t", "." >>, << "S", "t", "r", "e", "e", "t" >> >>,
       << << "A", "v", "e", "." >>, << "A", "v", "e", "n", "u", "e" >> >>,
       << << "R", "d", "." >>, << "R", "o", "a", "d" >> >>,
       << << "B", "l", "v", "d", "." >>, << "B", "o", "u", "l", "e", "v", "a", "r", "d" >> >>,
       << << "e", "t", "c", "." >>, << "e", "t", "c", "e", "t", "e", "r", "a" >> >> >>

\* \b<pattern> matches at i: the pattern starts with a word character, so the
\* boundary holds when no word character precedes it
AbbrevAt(s, i, pattern) ==
    /\ i + Len(pattern) - 1 <= Len(s)
    /\ SubSeq(s, i, i + Len(pattern) - 1) = pattern
    /\ (i = 1 \/ ~IsWord(s[i - 1]))

RECURSIVE ExpandAbbrev(_, _, _, _)
ExpandAbbrev(s, i, pattern, replacement) ==
    IF i > Len(s) THEN << >>
    ELSE IF AbbrevAt(s, i, pattern)
         THEN replacement \o ExpandAbbrev(s, i + Len(pattern), pattern, replacement)
         ELSE << s[i] >> \o ExpandAbbrev(s, i + 1, pattern, replacement)

\* the for loop over abbrev_expansions, from entry k on
RECURSIVE ExpandAbbrevs(_, _)
ExpandAbbrevs(s, k) ==
    IF k > Len(abbrev_expansions) THEN s
    ELSE ExpandAbbrevs(ExpandAbbrev(s, 1, abbrev_expansions[k][1], abbrev_expansions[k][2]), k + 1)

\* range_re: (\d+)-(\d+) -> "$1 to $2"
RECURSIVE ReplaceRanges(_, _)
ReplaceRanges(s, i) ==
    IF i > Len(s) THEN << >>
    ELSE IF IsDigit(s[i])
         THEN LET q == DigitRunEnd(s, i)
              IN  IF q + 2 <= Len(s) /\ s[q + 1] = "-" /\ IsDigit(s[q + 2])
                  THEN LET r == DigitRunEnd(s, q + 2)
                       IN  SubSeq(s, i, q) \o << " ", "t", "o", " " >> \o SubSeq(s, q + 2, r)
                               \o ReplaceRanges(s, r + 1)
                  ELSE SubSeq(s, i, q) \o ReplaceRanges(s, q + 1)
         ELSE << s[i] >> \o ReplaceRanges(s, i + 1)

\* comma_re: (\d),(\d) -> "$1$2"
RECURSIVE RemoveCommas(_, _)
RemoveCommas(s, i) ==
    IF i > Len(s) THEN << >>
    ELSE IF i + 2 <= Len(s) /\ IsDigit(s[i]) /\ s[i + 1] = "," /\ IsDigit(s[i + 2])
         THEN << s[i], s[i + 2] >> \o RemoveCommas(s, i + 3)
         ELSE << s[i] >> \o RemoveCommas(s, i + 1)

RECURSIVE TrimStart(_)
TrimStart(s) == IF s # << >> /\ IsSpace(Head(s)) THEN TrimStart(Tail(s)) ELSE s

RECURSIVE TrimEnd(_)
TrimEnd(s) ==
    IF s # << >> /\ IsSpace(s[Len(s)]) THEN TrimEnd(SubSeq(s, 1, Len(s) - 1)) ELSE s

trim(s) == TrimEnd(TrimStart(s))

normalize_text(text) ==
    IF text = << >> THEN << >>
    ELSE LET t1 == CollapseWhitespace(text, 1)
             t2 == FoldQuotes(t1)
             t3 == ExpandAbbrevs(t2, 1)
             t4 == ReplaceRanges(t3, 1)
             t5 == RemoveCommas(t4, 1)
         IN  trim(t5)

(***************************************************************************)
(* tts.rs: generate_cache_key.  format!("{}:{}:{}", text, file_name,       *)
(* speed); Display of an f32 prints the shortest decimal that reads back   *)
(* as the same value, without a fraction when the value is whole.          *)
(***************************************************************************)
DigitChar(d) == << "0", "1", "2", "3", "4", "5", "6", "7", "8", "9" >>[d + 1]

RECURSIVE Decimal(_)
Decimal(n) == IF n < 10 THEN << DigitChar(n) >> ELSE Decimal(n \div 10) \o << DigitChar(n % 10) >>

FormatSpeed(speed) ==
    LET a == IF speed < 0 THEN -speed ELSE speed
        sign == IF speed < 0 THEN << "-" >> ELSE << >>
    IN  sign \o Decimal(a \div 10)
             \o (IF a % 10 = 0 THEN << >> ELSE << ".", DigitChar(a % 10) >>)

\* a key that keeps only the whole part of the speed
generate_cache_key_whole_speed(text, voice_type, speed) ==
    text \o << ":" >> \o file_name(voice_type) \o << ":" >> \o Decimal(speed \div 10)

generate_cache_key(text, voice_type, speed) ==
    text \o << ":" >> \o file_name(voice_type) \o << ":" >> \o FormatSpeed(speed)

(***************************************************************************)
(* Bounds of the model and the inputs the operations are tried on.         *)
(***************************************************************************)
\* tts.rs, line 16: the TTL, one hour; the clock of the model ticks in half
\* hours
CACHE_TTL == 2

\* the clock stops when one TTL has passed
MaxTime == CACHE_TTL

\* tts.rs, line 300: the capacity of the LRU cache, 2 as in test_cache_eviction
\* (KokoroTTS::new, line 36, sets 50)
CacheCapacity == 2

\* calls started in one behaviour
MaxCalls == 4

\* requests started in one behaviour of the HTTP handler
MaxRequests == 1

Threads == { "t1", "t2" }

\* the threads serving HTTP requests
HttpThreads == { "t1" }

NoThread == "none"

\* the calls tried: three keys, one from a text that normalize_text changes,
\* one with a speed of 0.4
Calls ==
    { << << "a" >>, "Bella", 10 >>,
      << << " ", "a" >>, "Emma", 10 >>,
      << << "a" >>, "Bella", 4 >> }

\* what the engine may return for a call
Waveforms == { "w1", "w2" }

NoAudio == "none"

\* what the phonemizer may return: phonemes with a character ("1") that the
\* vocabulary does not hold
PhonemeStrings == { << "h", "1", "U+026A" >> }

\* the request bodies tried on the HTTP handler: the twelve identifiers and
\* two strings that are none of them; 0.4, 0.5, 2.0, 2.1 and no speed
VoiceStrings ==
    { "american_female_bella", "american_female_nicole", "american_female_sky",
      "american_male_fenrir", "american_male_michael", "american_male_puck",
      "british_female_emma", "british_female_isabella", "british_female_lily",
      "british_male_fable", "british_male_george", "british_male_lewis",
      "af_bella.bin", "Bella" }

NoSpeed == -1

RequestSpeeds == { 4, 5, 20, 21, NoSpeed }

RequestTexts == { << "a" >> }

(***************************************************************************)
(* The state.                                                              *)
(***************************************************************************)
VARIABLES
    now,                \* Instant::now(), in ticks
    cache,              \* KokoroTTS.cache: the entries, most recently used first
    voice_embeddings,   \* KokoroModel.voice_embeddings: the voices loaded
    TTS_INSTANCE,       \* handlers/tts.rs: the thread holding the guard of the static,
                        \* the KokoroTTS it holds, and how many were built
    cacheLock,          \* the thread holding the guard of KokoroTTS.cache
    modelLock,          \* the thread holding the guard of KokoroTTS.model
    phonemizerLock,     \* the thread holding the guard of PHONEMIZER_MUTEX
    poisoned,           \* the locks poisoned by a panic of their holder
    pc,                 \* where each thread is in its call
    req,                \* the arguments of each thread's call
    phonemes,           \* process_tts: the phoneme string espeak returned
    tokens,             \* process_tts: the padded tokens
    audio,              \* process_tts: audio_data
    popped,             \* process_tts: whether the call popped an expired entry
    recency,            \* the keys in the cache, the most recently used first
    returned,           \* the call that returned in the last step, if one did
    calls,              \* the calls started so far
    files,              \* the voice files under ASSETS_PATH/Kokoro that are not as
                        \* shipped, by voice
    loads,              \* how often each voice was loaded into the store
    input,              \* the argument of a function called on its own
    output              \* what that function returned

vars == << now, cache, voice_embeddings, TTS_INSTANCE, cacheLock, modelLock, phonemizerLock,
           poisoned, pc, req, phonemes, tokens, audio, popped, recency, returned, calls,
           files, loads, input, output >>

\* what the service does not touch: the files, and a function called on its own
aside == << files, input, output >>

\* None in the static of handlers/tts.rs; the KokoroTTS that KokoroTTS::new
\* returns are numbered from 1 in the order they are built
NoTts == 0

\* tts: the KokoroTTS the call is made on
NoRequest ==
    [ op |-> "none", text |-> << >>, voice |-> "none", speed |-> 0,
      voice_str |-> "none", speed_opt |-> 0, cache_key |-> << >>, tts |-> NoTts ]

Ok(a, how) == [ kind |-> "Ok", audio |-> a, cause |-> how ]

Err(kind, cause) == [ kind |-> kind, audio |-> NoAudio, cause |-> cause ]

NoEntry == [ key |-> << >>, audio |-> NoAudio, timestamp |-> 0 ]

NoReturn ==
    [ thread |-> NoThread, req |-> NoRequest, result |-> Err("none", "none"),
      popped |-> FALSE, evicted |-> NoEntry ]

(***************************************************************************)
(* model.rs: the voice files and the store of embeddings                   *)
(* (KokoroModel.voice_embeddings).  A file is absent, or there but not     *)
(* readable (File::open or read_to_end fails), or read as its bytes.       *)
(***************************************************************************)
\* the floats of an embedding: 510 * 1 * 256 in model.rs (lines 64 and 73),
\* scaled down
EmbeddingFloats == 2

\* model.rs, line 64: the bytes of an f32
BytesPerFloat == 4

\* model.rs, line 64: 510 * 1 * 256 * 4
ExpectedBytes == EmbeddingFloats * BytesPerFloat

\* the values a byte of a file takes
ByteValues == { 0, 1 }

NoFile == [ exists |-> FALSE, readable |-> FALSE, bytes |-> << >> ]

UnreadableFile(bytes) == [ exists |-> TRUE, readable |-> FALSE, bytes |-> bytes ]

FileOf(bytes) == [ exists |-> TRUE, readable |-> TRUE, bytes |-> bytes ]

\* two files of the expected length with different contents
FileA == FileOf([ i \in 1..ExpectedBytes |-> 0 ])

FileB == FileOf([ i \in 1..ExpectedBytes |-> 1 ])

\* a file one byte short
ShortFile == FileOf([ i \in 1..(ExpectedBytes - 1) |-> 0 ])

\* f32::from_le_bytes: the f32 is written as its bit pattern
from_le_bytes(chunk) ==
    chunk[1] + 256 * chunk[2] + 65536 * chunk[3] + 16777216 * chunk[4]

\* lines 76-81: one float per chunk of four bytes, chunks_exact dropping a
\* shorter rest
RECURSIVE chunks_to_floats(_)
chunks_to_floats(buffer) ==
    IF Len(buffer) < BytesPerFloat THEN << >>
    ELSE << from_le_bytes(SubSeq(buffer, 1, BytesPerFloat)) >>
            \o chunks_to_floats(SubSeq(buffer, BytesPerFloat + 1, Len(buffer)))

VoiceDataError(cause, voice, got) ==
    [ kind |-> "VoiceDataError", audio |-> NoAudio, cause |-> cause,
      voice |-> voice, got |-> got ]

OkTensor(tensor) == [ kind |-> "Ok", audio |-> NoAudio, cause |-> "store", tensor |-> tensor ]

\* a variant that accepts any file of whole floats
size_is_expected_any(buffer) == Len(buffer) % BytesPerFloat = 0

\* line 64: buffer.len() != 510 * 1 * 256 * 4
size_is_expected(buffer) == Len(buffer) = ExpectedBytes

\* the file as shipped: there, readable, of the expected length, its contents
\* depending on the voice
Shipped(voice_type) == IF voice_type \in BritishMaleVoice THEN FileB ELSE FileA

\* voice_type.path(): the file of the voice
FileAt(voice_type) ==
    IF voice_type \in DOMAIN files THEN files[voice_type] ELSE Shipped(voice_type)

\* lines 43-84
load_voice_embedding(voice_type) ==
    LET file == FileAt(voice_type)
    IN  IF ~file.exists
        THEN VoiceDataError("Voice file not found", voice_type, 0)
        ELSE IF ~file.readable
        THEN VoiceDataError("Failed to open or read voice file", "none", 0)
        ELSE IF ~size_is_expected(file.bytes)
        THEN VoiceDataError("Voice file has unexpected size", "none", Len(file.bytes))
        ELSE OkTensor(chunks_to_floats(file.bytes))

\* HashMap::new(), line 38
NoEmbeddings == [ v \in { } |-> << >> ]

\* self.voice_embeddings.insert(voice, embedding)
insert(store, voice, embedding) ==
    [ v \in DOMAIN store \cup { voice } |-> IF v = voice THEN embedding ELSE store[v] ]

\* one more load of the voice
Counted(count, voice) == [ count EXCEPT ![voice] = @ + 1 ]

\* lines 121-128: what get_voice_embedding leaves (store, loads) and returns
get_voice_embedding(voice_type, store, count) ==
    IF voice_type \in DOMAIN store
    THEN [ store |-> store, loads |-> count, result |-> OkTensor(store[voice_type]) ]
    ELSE LET loaded == load_voice_embedding(voice_type)
         IN  IF loaded.kind = "Ok"
             THEN [ store |-> insert(store, voice_type, loaded.tensor),
                    loads |-> Counted(count, voice_type),
                    result |-> loaded ]
             ELSE [ store |-> store, loads |-> count, result |-> loaded ]

\* a loop that ends at the first voice that fails
RECURSIVE load_each_until_failure(_, _, _, _, _)
load_each_until_failure(i, store, count, failed_voices, attempted) ==
    IF i > Len(ALL_VOICES) \/ failed_voices # << >>
    THEN [ store |-> store, loads |-> count, failed_voices |-> failed_voices,
           attempted |-> attempted ]
    ELSE LET voice == ALL_VOICES[i]
             loaded == load_voice_embedding(voice)
         IN  IF loaded.kind = "Ok"
             THEN load_each_until_failure(i + 1, insert(store, voice, loaded.tensor),
                                          Counted(count, voice), failed_voices,
                                          Append(attempted, voice))
             ELSE load_each_until_failure(i + 1, store, count,
                                          Append(failed_voices,
                                                 [ voice |-> voice, err |-> loaded ]),
                                          Append(attempted, voice))

\* lines 94-105: the loop over the catalogue, from its i-th voice on
RECURSIVE load_each(_, _, _, _, _)
load_each(i, store, count, failed_voices, attempted) ==
    IF i > Len(ALL_VOICES)
    THEN [ store |-> store, loads |-> count, failed_voices |-> failed_voices,
           attempted |-> attempted ]
    ELSE LET voice == ALL_VOICES[i]
             loaded == load_voice_embedding(voice)
         IN  IF loaded.kind = "Ok"
             THEN load_each(i + 1, insert(store, voice, loaded.tensor),
                            Counted(count, voice), failed_voices, Append(attempted, voice))
             ELSE load_each(i + 1, store, count,
                            Append(failed_voices, [ voice |-> voice, err |-> loaded ]),
                            Append(attempted, voice))

\* lines 87-118: what load_all_voice_embeddings leaves and returns; the error
\* is that of failed_voices[0]
load_all_voice_embeddings(store, count) ==
    LET done == load_each(1, store, count, << >>, << >>)
    IN  [ store |-> done.store, loads |-> done.loads,
          result |-> IF done.failed_voices # << >>
                     THEN [ done.failed_voices[1].err EXCEPT !.audio = NoAudio ]
                     ELSE [ kind |-> "Ok", audio |-> NoAudio, cause |-> "store" ],
          failed_voices |-> done.failed_voices,
          attempted |-> done.attempted ]

\* a list of the whole catalogue
available_voices_catalogue(store) == VoiceType

\* lines 131-133
available_voices(store) == DOMAIN store

(***************************************************************************)
(* The lru crate's LruCache, as tts.rs uses it: get, pop and put.          *)
(***************************************************************************)
Contains(c, k) == \E i \in 1..Len(c) : c[i].key = k

IndexOf(c, k) == CHOOSE i \in 1..Len(c) : c[i].key = k

Without(c, i) == SubSeq(c, 1, i - 1) \o SubSeq(c, i + 1, Len(c))

\* variants of get: one that leaves the order as it is, one that stamps the
\* entry anew
lru_get_in_place(c, k) == c

lru_get_restamped(c, k) ==
    << [ c[IndexOf(c, k)] EXCEPT !.timestamp = now ] >> \o Without(c, IndexOf(c, k))

\* cache.get(&key): the entry found becomes the most recently used
lru_get(c, k) == << c[IndexOf(c, k)] >> \o Without(c, IndexOf(c, k))

\* a variant of pop that removes the least recently used entry (pop_lru)
lru_pop_lru(c, k) == SubSeq(c, 1, Len(c) - 1)

\* cache.pop(&key)
lru_pop(c, k) == Without(c, IndexOf(c, k))

\* a variant of put that never evicts (an unbounded cache)
lru_put_unbounded(c, k, entry) ==
    IF Contains(c, k) THEN << entry >> \o Without(c, IndexOf(c, k))
    ELSE << entry >> \o c

\* a variant of put that keeps the entry of a key already present
lru_put_first_wins(c, k, entry) ==
    IF Contains(c, k) THEN << c[IndexOf(c, k)] >> \o Without(c, IndexOf(c, k))
    ELSE IF Len(c) >= CacheCapacity THEN << entry >> \o SubSeq(c, 1, Len(c) - 1)
    ELSE << entry >> \o c

\* cache.put(key, entry): replaces the entry of a key already present; at
\* capacity, evicts the least recently used entry
lru_put(c, k, entry) ==
    IF Contains(c, k) THEN << entry >> \o Without(c, IndexOf(c, k))
    ELSE IF Len(c) >= CacheCapacity THEN << entry >> \o SubSeq(c, 1, Len(c) - 1)
    ELSE << entry >> \o c

\* variants of the test: elapsed() <= ttl, and no expiry at all
FreshInclusive(entry) == now - entry.timestamp <= CACHE_TTL

FreshForever(entry) == TRUE

\* entry.timestamp.elapsed() < self.cache_ttl
Fresh(entry) == now - entry.timestamp < CACHE_TTL

CacheEntry(k, a) == [ key |-> k, audio |-> a, timestamp |-> now ]

\* a key made of the text as given
cache_key_raw(text, voice_type, speed) == generate_cache_key(text, voice_type, speed)

\* process_tts, lines 66-69: the key of a call
cache_key(text, voice_type, speed) ==
    generate_cache_key(normalize_text(text), voice_type, speed)

\* a padding in front only
padded_tokens_front(said) == << 0 >> \o tokenize(said)

\* lines 91-95: vec![0; 1], then the tokens of the phoneme string, then
\* vec![0; 1]
padded_tokens(said) == << 0 >> \o tokenize(said) \o << 0 >>

(***************************************************************************)
(* Init: a KokoroTTS that KokoroTTS::new has built (all voices loaded, an  *)
(* empty cache), no call in progress.                                      *)
(***************************************************************************)
\* handlers/tts.rs, line 18: Mutex::new(None)
NoInstance == [ holder |-> NoThread, tts |-> NoTts, built |-> 0 ]

InitThreads ==
    /\ pc = [ t \in Threads |-> "idle" ]
    /\ req = [ t \in Threads |-> NoRequest ]
    /\ phonemes = [ t \in Threads |-> << >> ]
    /\ tokens = [ t \in Threads |-> << >> ]
    /\ audio = [ t \in Threads |-> NoAudio ]
    /\ popped = [ t \in Threads |-> FALSE ]
    /\ recency = << >>
    /\ returned = NoReturn
    /\ calls = 0

\* every voice file is as shipped; no function is called on its own
AsShipped == [ v \in { } |-> NoFile ]

NoInput == << >>

NoOutput == << >>

InitAside ==
    /\ files = AsShipped
    /\ input = NoInput
    /\ output = NoOutput

InitShared ==
    /\ InitAside
    /\ now = 0
    /\ cache = << >>
    /\ cacheLock = NoThread
    /\ modelLock = NoThread
    /\ phonemizerLock = NoThread
    /\ poisoned = { }

Init ==
    /\ InitShared
    /\ InitThreads
    /\ voice_embeddings = load_all_voice_embeddings(NoEmbeddings, [ v \in VoiceType |-> 0 ]).store
    /\ loads = [ v \in VoiceType |-> 1 ]
    /\ TTS_INSTANCE = [ holder |-> NoThread, tts |-> 1, built |-> 1 ]

(***************************************************************************)
(* How a call starts, goes on and ends.  When the function returns r its   *)
(* locals are dropped; returned records the return for one step.           *)
(***************************************************************************)
Goto(t, label) ==
    /\ pc' = [ pc EXCEPT ![t] = label ]
    /\ returned' = NoReturn

Returning(t, r, gone) ==
    /\ pc' = [ pc EXCEPT ![t] = "idle" ]
    /\ returned' = [ thread |-> t, req |-> req[t], result |-> r, popped |-> popped[t],
                     evicted |-> gone ]
    /\ req' = [ req EXCEPT ![t] = NoRequest ]
    /\ phonemes' = [ phonemes EXCEPT ![t] = << >> ]
    /\ tokens' = [ tokens EXCEPT ![t] = << >> ]
    /\ audio' = [ audio EXCEPT ![t] = NoAudio ]
    /\ popped' = [ popped EXCEPT ![t] = FALSE ]

Return(t, r) == Returning(t, r, NoEntry)

\* What recency records: a use of the key k (its insertion, or a hit on it)
\* makes k the most recent, and a key that left the cache c is forgotten.
Used(k) == << k >> \o SelectSeq(recency, LAMBDA key : key # k)

StillCached(keys, c) == SelectSeq(keys, LAMBDA key : \E i \in 1..Len(c) : c[i].key = key)

\* the entry of c that is no longer in d, if there is one
Gone(c, d) ==
    LET lost == { i \in 1..Len(c) : \A j \in 1..Len(d) : d[j].key # c[i].key }
    IN  IF lost = { } THEN NoEntry ELSE c[CHOOSE i \in lost : TRUE]

(***************************************************************************)
(* tts.rs: KokoroTTS::process_tts, one action per step between two         *)
(* accesses to shared state.                                               *)
(***************************************************************************)
\* lines 66-75: the normalized text and the cache key of the call r, and
\* self.cache.lock(); a poisoned lock is an InferenceError
EnterProcessTts(t, r) ==
    /\ cacheLock = NoThread
    /\ IF "cache" \in poisoned
       THEN /\ pc' = [ pc EXCEPT ![t] = "idle" ]
            /\ returned' = [ thread |-> t, req |-> r,
                             result |-> Err("InferenceError", "cache lock"),
                             popped |-> FALSE, evicted |-> NoEntry ]
            /\ req' = [ req EXCEPT ![t] = NoRequest ]
            /\ UNCHANGED cacheLock
       ELSE /\ cacheLock' = t
            /\ req' = [ req EXCEPT ![t] = r ]
            /\ Goto(t, "lookup")

\* lines 59-75: a call of process_tts
ProcessTts(t, text, voice_type, speed) ==
    /\ TTS_INSTANCE.tts # NoTts
    /\ pc[t] = "idle"
    /\ calls < MaxCalls
    /\ calls' = calls + 1
    /\ EnterProcessTts(t, [ NoRequest EXCEPT !.op = "process_tts", !.text = text,
                                             !.tts = TTS_INSTANCE.tts,
                                             !.voice = voice_type, !.speed = speed,
                                             !.cache_key = cache_key(text, voice_type, speed) ])
    /\ UNCHANGED << now, cache, voice_embeddings, TTS_INSTANCE, modelLock, phonemizerLock,
                    poisoned, phonemes, tokens, audio, popped, recency, aside, loads >>

\* a lookup whose guard outlives the block: after a miss the call goes on
\* with the cache locked
LookupKeepingGuard(t) ==
    /\ pc[t] = "lookup"
    /\ cacheLock = t
    /\ LET k == req[t].cache_key
       IN  IF Contains(cache, k)
           THEN LET found == lru_get(cache, k)
                IN  IF Fresh(found[1])
                    THEN /\ cache' = found
                         /\ recency' = Used(k)
                         /\ cacheLock' = NoThread
                         /\ Return(t, Ok(found[1].audio, "cache"))
                    ELSE /\ cache' = lru_pop(found, k)
                         /\ recency' = StillCached(recency, cache')
                         /\ Goto(t, "phonemizer_lock")
                         /\ popped' = [ popped EXCEPT ![t] = TRUE ]
                         /\ UNCHANGED << req, phonemes, tokens, audio, cacheLock >>
           ELSE /\ Goto(t, "phonemizer_lock")
                /\ UNCHANGED << cache, req, phonemes, tokens, audio, popped, recency, cacheLock >>
    /\ UNCHANGED << now, voice_embeddings, TTS_INSTANCE, modelLock, phonemizerLock, poisoned,
                    calls, aside, loads >>

\* lines 77-85: get the entry; fresh, return a clone of its audio; expired,
\* pop it; the guard is dropped at the end of the block or at the return
Lookup(t) ==
    /\ pc[t] = "lookup"
    /\ cacheLock = t
    /\ cacheLock' = NoThread
    /\ LET k == req[t].cache_key
       IN  IF Contains(cache, k)
           THEN LET found == lru_get(cache, k)
                IN  IF Fresh(found[1])
                    THEN /\ cache' = found
                         /\ recency' = Used(k)
                         /\ Return(t, Ok(found[1].audio, "cache"))
                    ELSE /\ cache' = lru_pop(found, k)
                         /\ recency' = StillCached(recency, cache')
                         /\ Goto(t, "phonemizer_lock")
                         /\ popped' = [ popped EXCEPT ![t] = TRUE ]
                         /\ UNCHANGED << req, phonemes, tokens, audio >>
           ELSE /\ Goto(t, "phonemizer_lock")
                /\ UNCHANGED << cache, req, phonemes, tokens, audio, popped, recency, aside >>
    /\ UNCHANGED << now, voice_embeddings, TTS_INSTANCE, modelLock, phonemizerLock, poisoned,
                    calls, aside, loads >>

\* phonemizer.rs, lines 8-10: PHONEMIZER_MUTEX.lock(); a poisoned lock is an
\* Err, which process_tts (line 89) turns into a PhonemeError
LockPhonemizer(t) ==
    /\ pc[t] = "phonemizer_lock"
    /\ phonemizerLock = NoThread
    /\ IF "phonemizer" \in poisoned
       THEN /\ Return(t, Err("PhonemeError", "phonemizer lock"))
            /\ UNCHANGED phonemizerLock
       ELSE /\ phonemizerLock' = t
            /\ Goto(t, "phonemize")
            /\ UNCHANGED << req, phonemes, tokens, audio, popped >>
    /\ UNCHANGED << now, cache, voice_embeddings, TTS_INSTANCE, cacheLock, modelLock,
                    poisoned, calls, recency, aside, loads >>

PhonemizerError == << "Phonemizer error" >>

\* a variant that keeps the phonemizer locked when espeak fails
PhonemizeKeepingLockOnError(t) ==
    /\ pc[t] = "phonemize"
    /\ phonemizerLock = t
    /\ \E said \in PhonemeStrings \cup { PhonemizerError } :
          IF said = PhonemizerError
          THEN /\ Return(t, Err("PhonemeError", "phonemizer"))
               /\ UNCHANGED phonemizerLock
          ELSE /\ phonemes' = [ phonemes EXCEPT ![t] = said ]
               /\ tokens' = [ tokens EXCEPT ![t] = padded_tokens(said) ]
               /\ phonemizerLock' = NoThread
               /\ Goto(t, "model_lock")
               /\ UNCHANGED << req, audio, popped >>
    /\ UNCHANGED << now, cache, voice_embeddings, TTS_INSTANCE, cacheLock, modelLock,
                    poisoned, calls, recency, aside, loads >>

\* phonemizer.rs, lines 12-14, and tts.rs, lines 88-95: espeak's answer for
\* (normalized text, language) is an error or one of the phoneme strings
\* `answers`; the string is tokenized and padded
PhonemizeTo(t, answers) ==
    /\ pc[t] = "phonemize"
    /\ phonemizerLock = t
    /\ phonemizerLock' = NoThread
    /\ \E said \in answers \cup { PhonemizerError } :
          IF said = PhonemizerError
          THEN Return(t, Err("PhonemeError", "phonemizer"))
          ELSE /\ phonemes' = [ phonemes EXCEPT ![t] = said ]
               /\ tokens' = [ tokens EXCEPT ![t] = padded_tokens(said) ]
               /\ Goto(t, "model_lock")
               /\ UNCHANGED << req, audio, popped >>
    /\ UNCHANGED << now, cache, voice_embeddings, TTS_INSTANCE, cacheLock, modelLock,
                    poisoned, calls, recency, aside, loads >>

Phonemize(t) == PhonemizeTo(t, PhonemeStrings)

\* lines 98-101: self.model.lock(); the guard lives to the end of process_tts
LockModel(t) ==
    /\ pc[t] = "model_lock"
    /\ modelLock = NoThread
    /\ IF "model" \in poisoned
       THEN /\ Return(t, Err("InferenceError", "model lock"))
            /\ UNCHANGED modelLock
       ELSE /\ modelLock' = t
            /\ Goto(t, "embedding")
            /\ UNCHANGED << req, phonemes, tokens, audio, popped >>
    /\ UNCHANGED << now, cache, voice_embeddings, TTS_INSTANCE, cacheLock, phonemizerLock,
                    poisoned, calls, recency, aside, loads >>

\* a variant that gives the model lock back after the embedding, to take it
\* again for the inference
GetVoiceEmbeddingThenUnlock(t) ==
    /\ pc[t] = "embedding"
    /\ modelLock = t
    /\ modelLock' = NoThread
    /\ LET got == get_voice_embedding(req[t].voice, voice_embeddings, loads)
       IN  /\ voice_embeddings' = got.store
           /\ loads' = got.loads
           /\ IF got.result.kind = "Ok"
              THEN /\ Goto(t, "infer")
                   /\ UNCHANGED << req, phonemes, tokens, audio, popped >>
              ELSE Return(t, Err("VoiceDataError", "voice file"))
    /\ UNCHANGED << now, cache, TTS_INSTANCE, cacheLock, phonemizerLock, poisoned, calls, recency,
                    aside >>

\* lines 103-107 and model.rs, lines 121-128: get_voice_embedding loads the
\* voice when the store does not hold it; a failed load is a VoiceDataError
GetVoiceEmbedding(t) ==
    /\ pc[t] = "embedding"
    /\ modelLock = t
    /\ LET got == get_voice_embedding(req[t].voice, voice_embeddings, loads)
       IN  /\ voice_embeddings' = got.store
           /\ loads' = got.loads
           /\ IF got.result.kind = "Ok"
              THEN /\ Goto(t, "infer")
                   /\ UNCHANGED << modelLock, req, phonemes, tokens, audio, popped >>
              ELSE /\ Return(t, Err("VoiceDataError", "voice file"))
                   /\ modelLock' = NoThread
    /\ UNCHANGED << now, cache, TTS_INSTANCE, cacheLock, phonemizerLock, poisoned, calls, recency,
                    aside >>

EngineError == "Inference failed"

\* a variant without the `?`: the call goes on to the insertion
AfterInferUnchecked(outcome) == "cache_lock2"

\* the `?` of line 110: an Err of infer ends the call
AfterInfer(outcome) == IF outcome = EngineError THEN "idle" ELSE "cache_lock2"

\* line 110 and model.rs, lines 137-234: the engine returns a waveform or
\* fails (session.run, the extraction of the output, the shape)
Infer(t) ==
    /\ pc[t] = "infer"
    /\ modelLock = t
    /\ \E outcome \in Waveforms \cup { EngineError } :
          IF AfterInfer(outcome) = "idle"
          THEN /\ Return(t, Err("InferenceError", "engine"))
               /\ modelLock' = NoThread
          ELSE /\ audio' = [ audio EXCEPT ![t] = outcome ]
               /\ tokens' = [ tokens EXCEPT ![t] = << >> ]
               /\ Goto(t, AfterInfer(outcome))
               /\ UNCHANGED << modelLock, req, phonemes, popped >>
    /\ UNCHANGED << now, cache, voice_embeddings, TTS_INSTANCE, cacheLock, phonemizerLock,
                    poisoned, calls, recency, aside, loads >>

\* lines 114-116: self.cache.lock(), the model guard still held
LockCacheForInsert(t) ==
    /\ pc[t] = "cache_lock2"
    /\ cacheLock = NoThread
    /\ IF "cache" \in poisoned
       THEN /\ Return(t, Err("InferenceError", "cache lock"))
            /\ modelLock' = NoThread
            /\ UNCHANGED cacheLock
       ELSE /\ cacheLock' = t
            /\ Goto(t, "put")
            /\ UNCHANGED << modelLock, req, phonemes, tokens, audio, popped >>
    /\ UNCHANGED << now, cache, voice_embeddings, TTS_INSTANCE, phonemizerLock, poisoned,
                    calls, recency, aside, loads >>

\* lines 118-128: put the entry, stamped Instant::now(); return Ok(audio_data),
\* which drops the cache guard and then the model guard
Put(t) ==
    /\ pc[t] = "put"
    /\ cacheLock = t
    /\ cache' = lru_put(cache, req[t].cache_key, CacheEntry(req[t].cache_key, audio[t]))
    /\ recency' = StillCached(Used(req[t].cache_key), cache')
    /\ cacheLock' = NoThread
    /\ modelLock' = NoThread
    /\ Returning(t, Ok(audio[t], "inference"), Gone(cache, cache'))
    /\ UNCHANGED << now, voice_embeddings, TTS_INSTANCE, phonemizerLock, poisoned, calls,
                    aside, loads >>

\* Instant::now() advances
Tick ==
    /\ now < MaxTime
    /\ now' = now + 1
    /\ returned' = NoReturn
    /\ UNCHANGED << cache, voice_embeddings, TTS_INSTANCE, cacheLock, modelLock,
                    phonemizerLock, poisoned, pc, req, phonemes, tokens, audio, popped, recency,
                    calls, aside, loads >>

\* lines 46-51: available_voices panics on a poisoned model lock, and
\* otherwise returns the voices of the store
AvailableVoices(t) ==
    /\ TTS_INSTANCE.tts # NoTts
    /\ pc[t] = "idle"
    /\ calls < MaxCalls
    /\ calls' = calls + 1
    /\ modelLock = NoThread
    /\ returned' = [ thread |-> t,
                     req |-> [ NoRequest EXCEPT !.op = "available_voices",
                                                !.tts = TTS_INSTANCE.tts ],
                     result |-> IF "model" \in poisoned THEN Err("Panic", "model lock")
                                ELSE Ok(available_voices(voice_embeddings), "store"),
                     popped |-> FALSE, evicted |-> NoEntry ]
    /\ UNCHANGED << now, cache, voice_embeddings, TTS_INSTANCE, cacheLock, modelLock,
                    phonemizerLock, poisoned, pc, req, phonemes, tokens, audio, popped, recency,
                    aside, loads >>

(***************************************************************************)
(* Panics.  A thread that panics unwinds: its call returns nothing and the *)
(* guards it holds are dropped, which poisons their locks.                 *)
(***************************************************************************)
Panic(t, cause) ==
    Return(t, Err("Panic", cause))

\* model.rs, lines 192-198: the engine, or the index outputs["waveform"] of
\* an output the model does not have, panics under the model guard
InferPanics(t) ==
    /\ pc[t] = "infer"
    /\ modelLock = t
    /\ modelLock' = NoThread
    /\ poisoned' = poisoned \cup { "model" }
    /\ Panic(t, "engine")
    /\ UNCHANGED << now, cache, voice_embeddings, TTS_INSTANCE, cacheLock, phonemizerLock,
                    calls, recency, aside, loads >>

\* phonemizer.rs, line 12: espeak panics under the phonemizer guard
PhonemizerPanics(t) ==
    /\ pc[t] = "phonemize"
    /\ phonemizerLock = t
    /\ phonemizerLock' = NoThread
    /\ poisoned' = poisoned \cup { "phonemizer" }
    /\ Panic(t, "phonemizer")
    /\ UNCHANGED << now, cache, voice_embeddings, TTS_INSTANCE, cacheLock, modelLock,
                    calls, recency, aside, loads >>

\* tts.rs, lines 240-247: code outside process_tts that holds the cache guard
\* (the tests assert under it) panics
CacheHolderPanics ==
    /\ cacheLock = NoThread
    /\ "cache" \notin poisoned
    /\ poisoned' = poisoned \cup { "cache" }
    /\ returned' = NoReturn
    /\ UNCHANGED << now, cache, voice_embeddings, TTS_INSTANCE, cacheLock, modelLock,
                    phonemizerLock, pc, req, phonemes, tokens, audio, popped, recency, calls,
                    aside, loads >>

(***************************************************************************)
(* handlers/tts.rs: the handler synthesize_speech.  Its answer is the      *)
(* status and, for 200, the audio that audio_to_wav encodes.               *)
(***************************************************************************)
\* lines 71-73: a request arrives
Arrives(t, text, voice_str, speed_opt) ==
    /\ pc[t] = "idle"
    /\ calls' = calls + 1
    /\ req' = [ req EXCEPT ![t] = [ NoRequest EXCEPT !.op = "synthesize_speech", !.text = text,
                                                     !.voice_str = voice_str,
                                                     !.speed_opt = speed_opt ] ]
    /\ Goto(t, "get_tts")
    /\ UNCHANGED << now, cache, voice_embeddings, TTS_INSTANCE, cacheLock, modelLock,
                    phonemizerLock, poisoned, phonemes, tokens, audio, popped, recency, aside, loads >>

SynthesizeSpeech(t, text, voice_str, speed_opt) ==
    /\ calls < MaxRequests
    /\ Arrives(t, text, voice_str, speed_opt)

\* a get_tts that looks at the static and lets go of it before it builds
GetTtsUnguarded(t) ==
    /\ pc[t] = "get_tts"
    /\ TTS_INSTANCE.holder = NoThread
    /\ IF TTS_INSTANCE.tts # NoTts
       THEN /\ req' = [ req EXCEPT ![t].tts = TTS_INSTANCE.tts ]
            /\ Goto(t, "validate")
       ELSE /\ Goto(t, "new")
            /\ UNCHANGED req
    /\ UNCHANGED << now, cache, voice_embeddings, TTS_INSTANCE, cacheLock, modelLock,
                    phonemizerLock, poisoned, phonemes, tokens, audio, popped, calls, recency,
                    aside, loads >>

\* lines 21-35 and 74: get_tts locks the static; when it holds Some(tts) the
\* call clones it and returns, the guard dropped; when it holds None the call
\* goes on to KokoroTTS::new with the guard held
GetTts(t) ==
    /\ pc[t] = "get_tts"
    /\ TTS_INSTANCE.holder = NoThread
    /\ IF TTS_INSTANCE.tts # NoTts
       THEN /\ req' = [ req EXCEPT ![t].tts = TTS_INSTANCE.tts ]
            /\ Goto(t, "validate")
            /\ UNCHANGED TTS_INSTANCE
       ELSE /\ TTS_INSTANCE' = [ TTS_INSTANCE EXCEPT !.holder = t ]
            /\ Goto(t, "new")
            /\ UNCHANGED req
    /\ UNCHANGED << now, cache, voice_embeddings, cacheLock, modelLock,
                    phonemizerLock, poisoned, phonemes, tokens, audio, popped, calls, recency,
                    aside, loads >>

\* lines 28-34 and 74-81, and tts.rs, lines 31-43: KokoroTTS::new fails when
\* the model cannot be loaded, then get_tts returns the error, nothing stored,
\* and the handler answers 500; otherwise the KokoroTTS is stored in the
\* static and a clone of it returned.  The guard is dropped either way.
New(t) ==
    /\ pc[t] = "new"
    /\ \E built \in BOOLEAN :
          LET all == load_all_voice_embeddings(NoEmbeddings, loads)
              tts == TTS_INSTANCE.built + 1
          IN  IF built /\ all.result.kind = "Ok"
              THEN /\ TTS_INSTANCE' = [ holder |-> NoThread, tts |-> tts, built |-> tts ]
                   /\ voice_embeddings' = all.store
                   /\ loads' = all.loads
                   /\ req' = [ req EXCEPT ![t].tts = tts ]
                   /\ Goto(t, "validate")
                   /\ UNCHANGED << phonemes, tokens, audio, popped >>
              ELSE /\ Return(t, Err("500", "TTS initialization error"))
                   /\ TTS_INSTANCE' = [ TTS_INSTANCE EXCEPT !.holder = NoThread ]
                   /\ UNCHANGED << voice_embeddings, loads >>
    /\ UNCHANGED << now, cache, cacheLock, modelLock, phonemizerLock, poisoned, calls, recency,
                    aside >>

\* a variant with the open range (0.5, 2.0)
SpeedInOpenRange(speed) == 5 < speed /\ speed < 20

\* line 87: (0.5..=2.0).contains(&speed)
SpeedInRange(speed) == 5 <= speed /\ speed <= 20

\* line 86: request.speed.unwrap_or(1.0)
SpeedOrDefault(speed_opt) == IF speed_opt = NoSpeed THEN 10 ELSE speed_opt

\* lines 83-104: parse the voice, default and check the speed, and only then
\* call process_tts
Validate(t) ==
    /\ pc[t] = "validate"
    /\ LET voice == parse_voice(req[t].voice_str)
           speed == SpeedOrDefault(req[t].speed_opt)
       IN  IF ~voice.ok
           THEN /\ Return(t, Err("400", "Unsupported voice"))
                /\ UNCHANGED cacheLock
           ELSE IF ~SpeedInRange(speed)
           THEN /\ Return(t, Err("400", "Speed must be between 0.5 and 2.0"))
                /\ UNCHANGED cacheLock
           ELSE /\ EnterProcessTts(t, [ req[t] EXCEPT
                                          !.voice = voice.voice, !.speed = speed,
                                          !.cache_key = cache_key(req[t].text, voice.voice, speed) ])
                /\ UNCHANGED << phonemes, tokens, audio, popped >>
    /\ UNCHANGED << now, cache, voice_embeddings, TTS_INSTANCE, modelLock, phonemizerLock,
                    poisoned, calls, recency, aside, loads >>

\* lines 104-137: the status of the answer to a request whose process_tts
\* returned r
StatusCode(r) ==
    CASE r.kind = "Ok" -> "200"
      [] r.kind \in { "400", "500" } -> r.kind
      [] OTHER -> "500"

Step(t) ==
    \/ LockPhonemizer(t)
    \/ Lookup(t)
    \/ Phonemize(t)
    \/ LockModel(t)
    \/ GetVoiceEmbedding(t)
    \/ Infer(t)
    \/ LockCacheForInsert(t)
    \/ Put(t)

Next ==
    \/ \E t \in Threads, c \in Calls : ProcessTts(t, c[1], c[2], c[3])
    \/ \E t \in Threads : Step(t)
    \/ \E t \in Threads : AvailableVoices(t)
    \/ Tick

Spec == Init /\ [][Next]_vars

\* the same service, with panics under the locks
NextPoison ==
    \/ Next
    \/ \E t \in Threads : InferPanics(t)
    \/ \E t \in Threads : PhonemizerPanics(t)
    \/ CacheHolderPanics

SpecPoison == Init /\ [][NextPoison]_vars

\* the same service, each thread that can take a step of its call taking it
\* in the end: the scheduler runs every runnable thread, and the phonemizer
\* and the engine return
Fairness == \A t \in Threads : WF_vars(Step(t))

\* the calls of the fair service: two threads on one key, so that they meet
\* at each of the three locks
FairCalls == { << << "a" >>, "Bella", 10 >> }

NextFair ==
    \/ \E t \in Threads, c \in FairCalls : ProcessTts(t, c[1], c[2], c[3])
    \/ \E t \in Threads : Step(t)
    \/ \E t \in Threads : AvailableVoices(t)

SpecFair == Init /\ [][NextFair]_vars /\ Fairness

\* the HTTP service: no KokoroTTS yet, requests arrive at the handler
InitHttp ==
    /\ InitShared
    /\ InitThreads
    /\ voice_embeddings = NoEmbeddings
    /\ loads = [ v \in VoiceType |-> 0 ]
    /\ TTS_INSTANCE = NoInstance

NextHttp ==
    \/ \E t \in HttpThreads, text \in RequestTexts, voice_str \in VoiceStrings,
          speed_opt \in RequestSpeeds :
          SynthesizeSpeech(t, text, voice_str, speed_opt)
    \/ \E t \in HttpThreads :
          \/ GetTts(t)
          \/ New(t)
          \/ Validate(t)
          \/ Step(t)
    \/ Tick

SpecHttp == InitHttp /\ [][NextHttp]_vars

(***************************************************************************)
(* Concurrent requests at a handler that has no KokoroTTS yet: both        *)
(* threads serve requests, all with the same valid body.                   *)
(***************************************************************************)
\* requests started in one behaviour
MaxArrivals == 3

ArrivingVoice == "american_female_bella"

NextInstance ==
    \/ \E t \in Threads, text \in RequestTexts :
          /\ calls < MaxArrivals
          /\ Arrives(t, text, ArrivingVoice, NoSpeed)
    \/ \E t \in Threads :
          \/ GetTts(t)
          \/ New(t)
          \/ Validate(t)
          \/ Step(t)

SpecInstance == InitHttp /\ [][NextInstance]_vars

(***************************************************************************)
(* Calls on texts with one normal form: a first call on "Ms.", then calls  *)
(* on texts that normalize_text maps to the same string, with the same     *)
(* voice and speed.                                                        *)
(***************************************************************************)
FirstText == << "M", "s", "." >>

LaterTexts ==
    { << "M", "i", "s", "s" >>,
      << " ", "M", "s", "." >>,
      << "M", "s", ".", " " >>,
      << "M", "s", "." >> }

SameVoice == "Bella"

SameSpeed == 10

NextSameText ==
    \/ \E t \in Threads :
          /\ calls = 0
          /\ ProcessTts(t, FirstText, SameVoice, SameSpeed)
    \/ \E t \in Threads, text \in LaterTexts :
          /\ calls > 0
          /\ ProcessTts(t, text, SameVoice, SameSpeed)
    \/ \E t \in Threads : Step(t)
    \/ Tick

SpecSameText == Init /\ [][NextSameText]_vars

(***************************************************************************)
(* The service at rest: no KokoroTTS, an empty store, no call in progress. *)
(***************************************************************************)
service == << now, cache, voice_embeddings, TTS_INSTANCE, cacheLock, modelLock,
              phonemizerLock, poisoned, pc, req, phonemes, tokens, audio, popped, recency,
              returned, calls, loads >>

AtRest ==
    /\ now = 0
    /\ cache = << >>
    /\ cacheLock = NoThread
    /\ modelLock = NoThread
    /\ phonemizerLock = NoThread
    /\ poisoned = { }
    /\ InitThreads
    /\ voice_embeddings = NoEmbeddings
    /\ loads = [ v \in VoiceType |-> 0 ]
    /\ TTS_INSTANCE = NoInstance

(***************************************************************************)
(* The store of embeddings on its own: a KokoroModel that KokoroModel::new *)
(* has built (an empty store), its public functions called one after the   *)
(* other, and the voice files written in between.  input is the call of    *)
(* the last step and output what it returned.                              *)
(***************************************************************************)
\* the voices asked for and the voices whose files change: the first, the
\* second and the last of the catalogue
StoreVoices == { "Bella", "Nicole", "Lewis" }

\* what a voice file may become
FileChoices == { NoFile, ShortFile, UnreadableFile(FileA.bytes), FileA, FileB }

NoCall == [ op |-> "none", voice |-> "none" ]

CallOf(op, voice) == [ op |-> op, voice |-> voice ]

\* the files after the file of the voice has become f
SetFile(fs, voice, f) ==
    LET d == IF f = Shipped(voice) THEN DOMAIN fs \ { voice } ELSE DOMAIN fs \cup { voice }
    IN  [ v \in d |-> IF v = voice THEN f ELSE fs[v] ]

rest == << now, cache, TTS_INSTANCE, cacheLock, modelLock, phonemizerLock, poisoned,
           pc, req, phonemes, tokens, audio, popped, recency, returned >>

InitStore ==
    /\ AtRest
    /\ files = AsShipped
    /\ input = NoCall
    /\ output = NoOutput

\* model.rs, lines 121-128
ModelGetVoiceEmbedding(voice_type) ==
    /\ calls < MaxCalls
    /\ calls' = calls + 1
    /\ LET got == get_voice_embedding(voice_type, voice_embeddings, loads)
       IN  /\ voice_embeddings' = got.store
           /\ loads' = got.loads
           /\ output' = [ result |-> got.result ]
    /\ input' = CallOf("get_voice_embedding", voice_type)
    /\ UNCHANGED << rest, files >>

\* model.rs, lines 87-118
ModelLoadAllVoiceEmbeddings ==
    /\ calls < MaxCalls
    /\ calls' = calls + 1
    /\ LET all == load_all_voice_embeddings(voice_embeddings, loads)
       IN  /\ voice_embeddings' = all.store
           /\ loads' = all.loads
           /\ output' = [ result |-> all.result, failed_voices |-> all.failed_voices,
                          attempted |-> all.attempted ]
    /\ input' = CallOf("load_all_voice_embeddings", "none")
    /\ UNCHANGED << rest, files >>

\* model.rs, lines 131-133
ModelAvailableVoices ==
    /\ calls < MaxCalls
    /\ calls' = calls + 1
    /\ output' = [ result |-> available_voices(voice_embeddings) ]
    /\ input' = CallOf("available_voices", "none")
    /\ UNCHANGED << rest, files, voice_embeddings, loads >>

\* the file of a voice is removed, truncated, made unreadable or rewritten
WriteFile(voice, f) ==
    /\ calls < MaxCalls
    /\ calls' = calls + 1
    /\ FileAt(voice) # f
    /\ files' = SetFile(files, voice, f)
    /\ input' = NoCall
    /\ output' = NoOutput
    /\ UNCHANGED << rest, voice_embeddings, loads >>

NextStore ==
    \/ \E voice_type \in StoreVoices : ModelGetVoiceEmbedding(voice_type)
    \/ ModelLoadAllVoiceEmbeddings
    \/ ModelAvailableVoices
    \/ \E voice \in StoreVoices, f \in FileChoices : WriteFile(voice, f)

SpecStore == InitStore /\ [][NextStore]_vars

(***************************************************************************)
(* load_voice_embedding on its own: the file of the voice is missing, or   *)
(* unreadable, or holds any bytes up to one more than the expected length. *)
(***************************************************************************)
RECURSIVE ByteStrings(_)
ByteStrings(n) ==
    IF n = 0 THEN { << >> }
    ELSE LET shorter == ByteStrings(n - 1)
         IN  shorter \cup { Append(b, x) : b \in { c \in shorter : Len(c) = n - 1 },
                                           x \in ByteValues }

LoadFiles ==
    { NoFile } \cup { FileOf(b) : b \in ByteStrings(ExpectedBytes + 1) }
               \cup { UnreadableFile(b) : b \in ByteStrings(ExpectedBytes + 1) }

LoadVoices == { "Bella", "Lewis" }

InitLoad ==
    /\ AtRest
    /\ \E voice \in LoadVoices, f \in LoadFiles :
          /\ files = SetFile(AsShipped, voice, f)
          /\ input = CallOf("load_voice_embedding", voice)
    /\ output = NoOutput

\* model.rs, lines 43-84
ModelLoadVoiceEmbedding ==
    /\ calls = 0
    /\ calls' = 1
    /\ output' = [ result |-> load_voice_embedding(input.voice) ]
    /\ UNCHANGED << rest, voice_embeddings, loads, files, input >>

NextLoad == ModelLoadVoiceEmbedding

SpecLoad == InitLoad /\ [][NextLoad]_vars

(***************************************************************************)
(* tokenize and tokens_to_phonemes on their own: a string is tokenized,    *)
(* then the tokens are turned back into a string.                          *)
(***************************************************************************)
\* the longest string tried
MaxPhonemes == 3

\* a letter, a full stop, the pad, an IPA letter, the character that occurs
\* twice in the table, and two characters that are not in it
PhonemeAlphabet == { "h", ".", "$", "U+026A", "'", "1", "-" }

RECURSIVE StringsUpTo(_, _)
StringsUpTo(alphabet, n) ==
    IF n = 0 THEN { << >> }
    ELSE LET shorter == StringsUpTo(alphabet, n - 1)
         IN  shorter \cup { Append(w, c) : w \in { x \in shorter : Len(x) = n - 1 },
                                           c \in alphabet }

NoTokens == [ tokens |-> << >>, phonemes |-> << >> ]

InitTokenize ==
    /\ AtRest
    /\ files = AsShipped
    /\ input \in StringsUpTo(PhonemeAlphabet, MaxPhonemes)
    /\ output = NoTokens

\* tokenize.rs, lines 4-10
Tokenize ==
    /\ calls = 0
    /\ calls' = 1
    /\ output' = [ output EXCEPT !.tokens = tokenize(input) ]
    /\ UNCHANGED << rest, voice_embeddings, loads, files, input >>

\* tokenize.rs, lines 13-18, on the tokens of the string
TokensToPhonemes ==
    /\ calls = 1
    /\ calls' = 2
    /\ output' = [ output EXCEPT !.phonemes = tokens_to_phonemes(output.tokens) ]
    /\ UNCHANGED << rest, voice_embeddings, loads, files, input >>

NextTokenize ==
    \/ Tokenize
    \/ TokensToPhonemes

SpecTokenize == InitTokenize /\ [][NextTokenize]_vars

(***************************************************************************)
(* normalize_text on its own: a text is normalized, then the result is     *)
(* normalized again.                                                       *)
(***************************************************************************)
\* the longest text tried
MaxText == 5

\* digits, the hyphen of a range, the comma of a digit group, a space
TextAlphabet == { "1", "2", "-", ",", " " }

NoTexts == [ once |-> << >>, twice |-> << >> ]

InitNormalize ==
    /\ AtRest
    /\ files = AsShipped
    /\ input \in StringsUpTo(TextAlphabet, MaxText)
    /\ output = NoTexts

\* normalize.rs, lines 4-49
NormalizeText ==
    /\ calls = 0
    /\ calls' = 1
    /\ output' = [ output EXCEPT !.once = normalize_text(input) ]
    /\ UNCHANGED << rest, voice_embeddings, loads, files, input >>

\* normalize.rs, lines 4-49, on the text it returned
NormalizeTextAgain ==
    /\ calls = 1
    /\ calls' = 2
    /\ output' = [ output EXCEPT !.twice = normalize_text(output.once) ]
    /\ UNCHANGED << rest, voice_embeddings, loads, files, input >>

NextNormalize ==
    \/ NormalizeText
    \/ NormalizeTextAgain

SpecNormalize == InitNormalize /\ [][NextNormalize]_vars

(***************************************************************************)
(* tts.rs: audio_to_wav.  A sample is an f32: not a number, an infinity,   *)
(* or a finite value, kept in thousandths.  The writer of the WAV puts a   *)
(* header of 44 bytes (PCM, one fmt chunk of 16 bytes) before the samples  *)
(* and, at finalize, the lengths into it.                                  *)
(***************************************************************************)
\* 1.0 in the unit of the finite samples
Unit == 1000

\* i16::MAX and i16::MIN
I16_MAX == 32767

I16_MIN == -32768

\* WavSpec, lines 131-136
Channels == 1

SampleRate == 24000

BitsPerSample == 16

Finite(milli) == [ kind |-> "finite", milli |-> milli ]

NaN == [ kind |-> "nan", milli |-> 0 ]

Infinity == [ kind |-> "inf", milli |-> 0 ]

NegInfinity == [ kind |-> "-inf", milli |-> 0 ]

\* a clamp to [-2.0, 2.0]
clamp_wide(sample) ==
    CASE sample.kind = "nan" -> sample
      [] sample.kind = "inf" -> Finite(2 * Unit)
      [] sample.kind = "-inf" -> Finite(-2 * Unit)
      [] OTHER -> IF sample.milli > 2 * Unit THEN Finite(2 * Unit)
                  ELSE IF sample.milli < -2 * Unit THEN Finite(-2 * Unit)
                  ELSE sample

\* f32::clamp(-1.0, 1.0): a NaN stays a NaN
clamp(sample) ==
    CASE sample.kind = "nan" -> sample
      [] sample.kind = "inf" -> Finite(Unit)
      [] sample.kind = "-inf" -> Finite(-Unit)
      [] OTHER -> IF sample.milli > Unit THEN Finite(Unit)
                  ELSE IF sample.milli < -Unit THEN Finite(-Unit)
                  ELSE sample

\* (x * i16::MAX as f32) as i16: the cast drops the fraction, saturates at
\* the ends of i16 and turns a NaN into 0
amplitude(sample) ==
    LET x == clamp(sample)
    IN  IF x.kind = "nan" THEN 0
        ELSE LET p == x.milli * I16_MAX
                 whole == IF p >= 0 THEN p \div Unit ELSE -((-p) \div Unit)
             IN  IF whole > I16_MAX THEN I16_MAX
                 ELSE IF whole < I16_MIN THEN I16_MIN
                 ELSE whole

\* the n low bytes of a number, the lowest first
RECURSIVE le_bytes(_, _)
le_bytes(x, n) == IF n = 0 THEN << >> ELSE << x % 256 >> \o le_bytes(x \div 256, n - 1)

\* write_sample of an i16: its two's complement, little-endian
sample_bytes(a) == le_bytes(IF a < 0 THEN a + 65536 ELSE a, 2)

RECURSIVE samples_bytes(_)
samples_bytes(audio_data) ==
    IF audio_data = << >> THEN << >>
    ELSE sample_bytes(amplitude(Head(audio_data))) \o samples_bytes(Tail(audio_data))

\* the header for a data chunk of data_len bytes: "RIFF", the length of the
\* rest, "WAVE", "fmt ", 16, PCM, the channels, the rate, the bytes per
\* second, the bytes per frame, the bits, "data", the length of the data
wav_header(data_len) ==
    << 82, 73, 70, 70 >> \o le_bytes(36 + data_len, 4)
       \o << 87, 65, 86, 69 >> \o << 102, 109, 116, 32 >> \o le_bytes(16, 4)
       \o le_bytes(1, 2) \o le_bytes(Channels, 2) \o le_bytes(SampleRate, 4)
       \o le_bytes(SampleRate * Channels * (BitsPerSample \div 8), 4)
       \o le_bytes(Channels * (BitsPerSample \div 8), 2) \o le_bytes(BitsPerSample, 2)
       \o << 100, 97, 116, 97 >> \o le_bytes(data_len, 4)

\* lines 130-158
audio_to_wav(audio_data) ==
    LET data == samples_bytes(audio_data)
    IN  wav_header(Len(data)) \o data

\* the longest waveform tried
MaxSamples == 2

\* 0, 0.5, -0.5, the ends of the range, values just outside and far outside
\* it, the infinities and a NaN
SampleValues ==
    { Finite(0), Finite(500), Finite(-500), Finite(Unit), Finite(-Unit),
      Finite(Unit + 1), Finite(-Unit - 1), Finite(1000 * Unit), Finite(-1000 * Unit),
      Infinity, NegInfinity, NaN }

NoWav == [ wav |-> << >> ]

InitWav ==
    /\ AtRest
    /\ files = AsShipped
    /\ input \in StringsUpTo(SampleValues, MaxSamples)
    /\ output = NoWav

AudioToWav ==
    /\ calls = 0
    /\ calls' = 1
    /\ output' = [ wav |-> audio_to_wav(input) ]
    /\ UNCHANGED << rest, voice_embeddings, loads, files, input >>

NextWav == AudioToWav

SpecWav == InitWav /\ [][NextWav]_vars

(***************************************************************************)
(* model.rs: infer, lines 153-170: the style vector made of the voice      *)
(* embedding.  The 510 frames and the 256 components are scaled down; a    *)
(* component of the vector is kept as a fraction, so that the division by  *)
(* the number of frames loses nothing.                                     *)
(***************************************************************************)
\* 510 in model.rs, lines 158 and 161
Frames == 2

\* 256 in model.rs, lines 155, 158, 159, 168 and 169
StyleDim == 2

Ratio(num, den) == [ num |-> num, den |-> den ]

\* a sum over the frames that takes the values of a row for a column
RECURSIVE column_sum_of_row(_, _, _)
column_sum_of_row(voice_embedding, i, j) ==
    IF j >= Frames THEN 0
    ELSE voice_embedding[i * Frames + j + 1] + column_sum_of_row(voice_embedding, i, j + 1)

\* lines 160-163: for j in 0..510 { sum += voice_embedding[j * 256 + i] },
\* from frame j on; the sequence of the model starts at 1
RECURSIVE column_sum(_, _, _)
column_sum(voice_embedding, i, j) ==
    IF j >= Frames THEN 0
    ELSE voice_embedding[j * StyleDim + i + 1] + column_sum(voice_embedding, i, j + 1)

\* Vec::resize
resize(v, n, x) ==
    IF Len(v) >= n THEN SubSeq(v, 1, n) ELSE v \o [ k \in 1..(n - Len(v)) |-> x ]

Min(a, b) == IF a < b THEN a ELSE b

\* lines 155-170: vec![0.0; 256], then the mean of each column, or else
\* extend_from_slice of the first elements and resize(256, 0.0)
style_data(voice_embedding) ==
    LET zeros == [ i \in 1..StyleDim |-> Ratio(0, 1) ]
    IN  IF Len(voice_embedding) = Frames * StyleDim
        THEN [ i \in 1..StyleDim |-> Ratio(column_sum(voice_embedding, i - 1, 0), Frames) ]
        ELSE resize(zeros \o [ k \in 1..Min(StyleDim, Len(voice_embedding)) |->
                                  Ratio(voice_embedding[k], 1) ],
                    StyleDim, Ratio(0, 1))

\* the values of an embedding tried
EmbeddingValues == { 0, 1, 2 }

NoStyle == [ style |-> << >> ]

InitStyle ==
    /\ AtRest
    /\ files = AsShipped
    /\ input \in StringsUpTo(EmbeddingValues, Frames * StyleDim + 1)
    /\ output = NoStyle

\* model.rs, lines 153-170, on the embedding given to infer
StyleData ==
    /\ calls = 0
    /\ calls' = 1
    /\ output' = [ style |-> style_data(input) ]
    /\ UNCHANGED << rest, voice_embeddings, loads, files, input >>

NextStyle == StyleData

SpecStyle == InitStyle /\ [][NextStyle]_vars

(***************************************************************************)
(* Calls for which espeak may return any short phoneme string: the empty   *)
(* string, strings of characters the vocabulary does not hold, the pad     *)
(* character.                                                              *)
(***************************************************************************)
\* the longest phoneme string espeak returns here
MaxEspeak == 2

\* a letter, the pad, and a character that is not in the table
EspeakAlphabet == { "h", "$", "1" }

EspeakAnswers == StringsUpTo(EspeakAlphabet, MaxEspeak)

NextPhonemes ==
    \/ \E t \in Threads, c \in FairCalls : ProcessTts(t, c[1], c[2], c[3])
    \/ \E t \in Threads :
          \/ LockPhonemizer(t)
          \/ Lookup(t)
          \/ PhonemizeTo(t, EspeakAnswers)
          \/ LockModel(t)
          \/ GetVoiceEmbedding(t)
          \/ Infer(t)
          \/ LockCacheForInsert(t)
          \/ Put(t)

SpecPhonemes == Init /\ [][NextPhonemes]_vars

(***************************************************************************)
(* Functions called on their own: the service is at rest (no KokoroTTS, no *)
(* call in progress), the arguments are drawn at the start and one step    *)
(* applies the function.                                                   *)
(***************************************************************************)
\* the texts, voices and speeds tried on generate_cache_key: texts with ':',
\* a text that is a voice file name, a text that is the key of another text;
\* every voice; 0.5, 1.0 and 1.5
KeyTexts ==
    { << "a" >>,
      << "a", ":" >>,
      file_name("Bella"),
      << "a", ":" >> \o file_name("Bella"),
      << "a", ":" >> \o file_name("Bella") \o << ":", "1" >> }

KeySpeeds == { 5, 10, 15 }

KeyInputs == [ text : KeyTexts, voice : VoiceType, speed : KeySpeeds ]

InitKey ==
    /\ AtRest
    /\ files = AsShipped
    /\ input \in KeyInputs \X KeyInputs
    /\ output = NoOutput

\* tts.rs, lines 54-56, called on each of the two inputs
GenerateCacheKey ==
    /\ output = NoOutput
    /\ output' = << generate_cache_key(input[1].text, input[1].voice, input[1].speed),
                    generate_cache_key(input[2].text, input[2].voice, input[2].speed) >>
    /\ UNCHANGED << service, files, input >>

NextKey == GenerateCacheKey

SpecKey == InitKey /\ [][NextKey]_vars

(***************************************************************************)
(* The cache of process_tts: freshness, capacity, insertion.               *)
(***************************************************************************)
\* C1: a call of process_tts is answered from the cache only by an entry of
\* its key whose age, at the lookup, is less than the TTL: an entry as old as
\* the TTL or older is never returned as a hit.
ServedOnlyWhenFresh ==
    returned.result.cause = "cache" =>
        \E i \in 1..Len(cache) :
            /\ cache[i].key = returned.req.cache_key
            /\ cache[i].audio = returned.result.audio
            /\ now - cache[i].timestamp < CACHE_TTL

\* a hit, after the clock has advanced
ServedFromCache ==
    /\ returned.result.kind = "Ok"
    /\ returned.result.cause = "cache"
    /\ now = MaxTime

\* C2: the cache never holds more entries than its capacity, and no two
\* entries have the same key.
CacheWithinCapacity ==
    /\ Len(cache) <= CacheCapacity
    /\ \A i, j \in 1..Len(cache) : cache[i].key = cache[j].key => i = j

\* an insertion into a full cache
InsertedIntoFullCache ==
    /\ returned.result.cause = "inference"
    /\ returned.evicted # NoEntry
    /\ Len(cache) = CacheCapacity

\* C3: an entry comes into the cache only in the step in which its call
\* returns Ok, with the waveform that the inference of that call returned:
\* a call that returns an error adds no entry.
InsertedOnlyAfterSuccess ==
    [][ \A i \in 1..Len(cache') :
           \/ \E j \in 1..Len(cache) : cache[j] = cache'[i]
           \/ /\ returned'.result.kind = "Ok"
              /\ returned'.result.cause = "inference"
              /\ returned'.result.audio \in Waveforms
              /\ cache'[i].key = returned'.req.cache_key
              /\ cache'[i].audio = returned'.result.audio ]_vars

\* a call failed, and the cache, not empty, has no entry of its key
FailedWithoutEntry ==
    /\ returned.req.op = "process_tts"
    /\ returned.result.kind \in { "PhonemeError", "InferenceError" }
    /\ cache # << >>
    /\ \A i \in 1..Len(cache) : cache[i].key # returned.req.cache_key

\* C4, as it is stated: a call that fails with a PhonemeError or an
\* InferenceError has changed nothing in the cache, also when the entry of
\* its key had expired (popped: the call removed that entry).
FailedCallLeftCacheAlone ==
    returned.result.kind \in { "PhonemeError", "InferenceError" } => ~returned.popped

\* C4, amended: a step changes the cache only if it returns Ok (a hit, an
\* insertion) or if it is the lookup of a call whose key has an expired
\* entry, and that step removes this entry and nothing else.  So a call that
\* fails has added and changed no entry; at most it removed the expired entry
\* of its own key.
FailedCallOnlyDropsExpired ==
    [][ cache' # cache =>
           \/ returned'.result.kind = "Ok"
           \/ \E t \in Threads :
                 /\ pc[t] = "lookup"
                 /\ popped'[t] /\ ~popped[t]
                 /\ \E i \in 1..Len(cache) :
                       /\ cache[i].key = req[t].cache_key
                       /\ now - cache[i].timestamp >= CACHE_TTL
                       /\ cache' = SubSeq(cache, 1, i - 1) \o SubSeq(cache, i + 1, Len(cache))
      ]_vars

\* a call that removed the expired entry of its key failed, and another
\* entry is in the cache
FailedAfterDroppingExpired ==
    /\ returned.result.kind \in { "PhonemeError", "InferenceError" }
    /\ returned.popped
    /\ cache # << >>

\* C5: process_tts, called with a speed outside [0.5, 2.0], returns a
\* validation error (and so has not phonemized, inferred or cached).
SpeedCheckedByProcessTts ==
    (/\ returned.req.op = "process_tts"
     /\ ~(5 <= returned.req.speed /\ returned.req.speed <= 20))
        => returned.result.kind = "ValidationError"

PoisonedLockIsInferenceError ==
    returned.result.cause \in { "cache lock", "model lock" }
        => returned.result.kind = "InferenceError"

(***************************************************************************)
(* Expiry, eviction, hits.                                                 *)
(***************************************************************************)
\* C8: a lookup that finds an entry of its key as old as the TTL or older
\* is a miss: the step removes the entry and the call goes on to the
\* phonemizer; when that call returns Ok, the audio comes from inference and
\* the cache holds an entry of the key with that audio, stamped now.
ExpiredIsMiss ==
    /\ [][ \A t \in Threads :
              (/\ pc[t] = "lookup"
               /\ pc'[t] # "lookup"
               /\ \E i \in 1..Len(cache) : /\ cache[i].key = req[t].cache_key
                                           /\ now - cache[i].timestamp >= CACHE_TTL)
                 => /\ pc'[t] = "phonemizer_lock"
                    /\ Len(cache') = Len(cache) - 1
                    /\ \A i \in 1..Len(cache') : cache'[i].key # req[t].cache_key ]_vars
    /\ []( (returned.popped /\ returned.result.kind = "Ok") =>
              /\ returned.result.cause = "inference"
              /\ \E i \in 1..Len(cache) :
                    /\ cache[i].key = returned.req.cache_key
                    /\ cache[i].audio = returned.result.audio
                    /\ cache[i].timestamp = now
                    /\ now - cache[i].timestamp < CACHE_TTL )

\* a call that removed the expired entry of its key returned Ok
RegeneratedAfterExpiry ==
    /\ returned.popped
    /\ returned.result.kind = "Ok"
    /\ returned.result.cause = "inference"

\* C9: when a call inserts a new key into a full cache, the one entry that
\* leaves is that of the least recently used key, a use being the insertion
\* of the key or a later hit on it.  With capacity 2: k1, k2, k3 inserted
\* leave k2 and k3; k1, k2 inserted, k1 hit, k3 inserted leave k1 and k3.
EvictsLeastRecentlyUsed ==
    /\ LET e(k) == [ key |-> k, audio |-> "w1", timestamp |-> 0 ]
           keys(c) == { c[i].key : i \in 1..Len(c) }
           two == lru_put(lru_put(<< >>, "k1", e("k1")), "k2", e("k2"))
       IN  CacheCapacity = 2 =>
              /\ keys(lru_put(two, "k3", e("k3"))) = { "k2", "k3" }
              /\ keys(lru_put(lru_get(two, "k1"), "k3", e("k3"))) = { "k1", "k3" }
    /\ [][ \A t \in Threads :
              (/\ pc[t] = "put"
               /\ pc'[t] = "idle"
               /\ Len(cache) = CacheCapacity
               /\ \A i \in 1..Len(cache) : cache[i].key # req[t].cache_key)
                 => { cache'[i].key : i \in 1..Len(cache') }
                       = ({ cache[i].key : i \in 1..Len(cache) }
                             \ { recency[Len(recency)] }) \cup { req[t].cache_key } ]_vars

\* an insertion evicted an entry younger than one that stays: the older one
\* had been hit since
EvictedLeastRecent ==
    /\ returned.result.cause = "inference"
    /\ returned.evicted # NoEntry
    /\ \E i \in 1..Len(cache) : cache[i].timestamp < returned.evicted.timestamp

\* C10: a lookup that finds an entry of its key younger than the TTL ends
\* the call in that step (no phonemizer, no embedding, no inference) with
\* the audio of the entry, and the cache holds the same entries after it:
\* as many, and the entry found with its timestamp.
HitReturnsStored ==
    [][ \A t \in Threads :
           \A i \in 1..Len(cache) :
              (/\ pc[t] = "lookup"
               /\ pc'[t] # "lookup"
               /\ cache[i].key = req[t].cache_key
               /\ now - cache[i].timestamp < CACHE_TTL)
                 => /\ pc'[t] = "idle"
                    /\ returned'.thread = t
                    /\ returned'.result = Ok(cache[i].audio, "cache")
                    /\ Len(cache') = Len(cache)
                    /\ { cache'[j] : j \in 1..Len(cache') }
                          = { cache[j] : j \in 1..Len(cache) } ]_vars

\* a hit on one of two entries
HitAmongTwo ==
    /\ returned.result.cause = "cache"
    /\ returned.result.audio \in Waveforms
    /\ Len(cache) = CacheCapacity

(***************************************************************************)
(* The cache key.                                                          *)
(***************************************************************************)
\* C11: generate_cache_key gives equal keys for equal (text, voice, speed)
\* and different keys for different ones, also when a text holds ':' or is a
\* voice file name or the key of another text.
KeyIsInjective ==
    output # NoOutput => ((input[1] = input[2]) <=> (output[1] = output[2]))

\* keys computed for two inputs, the text of the second being the key of the
\* first
KeysOfTextAndItsKey ==
    /\ output # NoOutput
    /\ input[2].text
          = generate_cache_key(input[1].text, input[1].voice, input[1].speed)

\* C12: the cache is keyed on the normalized text: when a call of
\* process_tts on a text with the normal form of the first call's text, with
\* its voice and speed, looks up the cache while the entry stored under the
\* first text's key is there and younger than the TTL, the call returns in
\* that step with the waveform of the entry, without phonemizer or inference.
SameNormalFormIsHit ==
    [][ \A t \in Threads :
           \A i \in 1..Len(cache) :
              (/\ pc[t] = "lookup"
               /\ pc'[t] # "lookup"
               /\ normalize_text(req[t].text) = normalize_text(FirstText)
               /\ req[t].voice = SameVoice
               /\ req[t].speed = SameSpeed
               /\ cache[i].key
                     = generate_cache_key(normalize_text(FirstText), SameVoice, SameSpeed)
               /\ now - cache[i].timestamp < CACHE_TTL)
                 => /\ pc'[t] = "idle"
                    /\ returned'.thread = t
                    /\ returned'.result = Ok(cache[i].audio, "cache") ]_vars

\* the second call of all, on another text than the first, was answered from
\* the cache: by the entry of the first call
SecondTextServedFromCache ==
    /\ calls = 2
    /\ returned.result.cause = "cache"
    /\ returned.req.text # FirstText
    /\ returned.result.audio \in Waveforms

(***************************************************************************)
(* The store of embeddings.                                                *)
(***************************************************************************)
\* the voices whose file cannot be loaded as it is
Failing == { v \in VoiceType : load_voice_embedding(v).kind # "Ok" }

\* the first of them in the order of the catalogue
FirstFailing ==
    ALL_VOICES[CHOOSE i \in 1..Len(ALL_VOICES) :
                  /\ ALL_VOICES[i] \in Failing
                  /\ \A j \in 1..(i - 1) : ALL_VOICES[j] \notin Failing]

\* C13: load_all_voice_embeddings tries each of the twelve voices of the
\* catalogue, in its order, also after one failed; every voice whose file
\* loads is in the store afterwards, and the voices that were there stay; if
\* no voice fails it returns Ok and the store holds all twelve; if one fails
\* it returns the VoiceDataError of the first failing voice of the catalogue.
LoadAllKeepsGoing ==
    [][ input'.op = "load_all_voice_embeddings" =>
          /\ output'.attempted = ALL_VOICES
          /\ \A v \in VoiceType \ Failing :
                /\ v \in DOMAIN voice_embeddings'
                /\ loads'[v] = loads[v] + 1
          /\ DOMAIN voice_embeddings' = DOMAIN voice_embeddings \cup (VoiceType \ Failing)
          /\ IF Failing = { }
             THEN /\ output'.result.kind = "Ok"
                  /\ DOMAIN voice_embeddings' = VoiceType
                  /\ Cardinality(DOMAIN voice_embeddings') = 12
             ELSE /\ output'.result.kind = "VoiceDataError"
                  /\ output'.result = load_voice_embedding(FirstFailing) ]_vars

\* load_all_voice_embeddings returned the error of the first voice of the
\* catalogue; the second failed too, and the ten voices after them are loaded
LoadedAfterTwoFailures ==
    /\ input.op = "load_all_voice_embeddings"
    /\ output.result.kind = "VoiceDataError"
    /\ output.result.voice = "Bella"
    /\ Len(output.failed_voices) = 2
    /\ Cardinality(DOMAIN voice_embeddings) = 10
    /\ "Lewis" \in DOMAIN voice_embeddings

\* C14: over any sequence of calls of get_voice_embedding and
\* load_all_voice_embeddings on one store, the file of a voice is loaded at
\* most once.
LoadedAtMostOnce == \A v \in VoiceType : loads[v] <= 1

\* C15: available_voices returns exactly the voices whose load into the
\* store has succeeded so far: none for a new store, and never a voice that
\* was not loaded or whose load failed.
AvailableAreTheLoaded ==
    input.op = "available_voices" =>
       /\ output.result = { v \in VoiceType : loads[v] > 0 }
       /\ (calls = 1 => output.result = { })

\* available_voices returned eleven voices: the load of one had failed
AvailableWithoutFailedVoice ==
    /\ input.op = "available_voices"
    /\ Cardinality(output.result) = 11
    /\ "Bella" \notin output.result

\* C16, as stated: load_voice_embedding succeeds exactly when the file of
\* the voice exists and its length is the expected number of bytes.
LoadSucceedsIffExpectedSize ==
    (input.op = "load_voice_embedding" /\ calls = 1) =>
       LET file == FileAt(input.voice)
       IN  (output.result.kind = "Ok")
              <=> (file.exists /\ Len(file.bytes) = ExpectedBytes)

\* C16, amended: load_voice_embedding succeeds exactly when the file of the
\* voice exists, can be opened and read, and its length is the expected
\* number of bytes; it then returns one float per group of four bytes, read
\* as little-endian, in the order of the file; in every other case it returns
\* a VoiceDataError; in no case does it store anything.
LoadSucceedsIffReadableExpectedSize ==
    (input.op = "load_voice_embedding" /\ calls = 1) =>
       LET file == FileAt(input.voice)
           r == output.result
           b == file.bytes
       IN  /\ (r.kind = "Ok")
                 <=> (file.exists /\ file.readable /\ Len(b) = ExpectedBytes)
           /\ r.kind = "Ok" =>
                 /\ Len(r.tensor) = EmbeddingFloats
                 /\ \A k \in 1..EmbeddingFloats :
                       r.tensor[k] = b[4 * k - 3] + 256 * b[4 * k - 2]
                                     + 65536 * b[4 * k - 1] + 16777216 * b[4 * k]
           /\ r.kind # "Ok" => r.kind = "VoiceDataError"
           /\ voice_embeddings = NoEmbeddings

\* a file of the expected length was loaded into floats that differ
LoadedTwoDifferentFloats ==
    /\ input.op = "load_voice_embedding"
    /\ calls = 1
    /\ output.result.kind = "Ok"
    /\ output.result.tensor[1] = 256
    /\ output.result.tensor[2] = 1

\* C17: an embedding in the store is never removed and never replaced by
\* other contents: after every step the store holds each voice it held, with
\* the same values.
StoredEmbeddingNeverChanges ==
    [][ \A v \in DOMAIN voice_embeddings :
           /\ v \in DOMAIN voice_embeddings'
           /\ voice_embeddings'[v] = voice_embeddings[v] ]_vars

(***************************************************************************)
(* Tokens.                                                                 *)
(***************************************************************************)
\* C18: tokens_to_phonemes(tokenize(s)) is s without its characters that
\* are not in the vocabulary, the others in their order; it is s when every
\* character of s is in the vocabulary.
RoundTripDropsUnknown ==
    calls = 2 =>
       /\ output.phonemes = SelectSeq(input, InVocabulary)
       /\ (\A i \in 1..Len(input) : InVocabulary(input[i])) => output.phonemes = input

\* the round trip of a string with the character that is twice in the table
\* and one that is not in it
RoundTripOfMixedString ==
    /\ calls = 2
    /\ input = << "'", "1", "h" >>
    /\ output.phonemes = << "'", "h" >>

\* C19: tokenize returns, for every string, the identifiers of its
\* characters that are in the vocabulary, in their order, and nothing for
\* the others: as many tokens as such characters, none for the empty string
\* and three for "...".
TokenizeKeepsKnownInOrder ==
    calls >= 1 =>
       LET known == SelectSeq(input, InVocabulary)
       IN  /\ Len(output.tokens) = Cardinality({ i \in 1..Len(input) : InVocabulary(input[i]) })
           /\ Len(output.tokens) = Len(known)
           /\ \A k \in 1..Len(known) : output.tokens[k] = VOCABULARY(known[k])
           /\ input = << >> => output.tokens = << >>
           /\ input = << ".", ".", "." >> => Len(output.tokens) = 3

\* a string with two characters out of three in the vocabulary gave two
\* tokens
TokenizedAroundUnknown ==
    /\ calls >= 1
    /\ input = << "h", "-", "." >>
    /\ output.tokens = << 50, 4 >>

(***************************************************************************)
(* Normalization.                                                          *)
(***************************************************************************)
\* C20: normalize_text is idempotent: normalizing a normalized text gives
\* the same text, also for chained ranges and chained digit groups.
NormalizeIsIdempotent == calls = 2 => output.twice = output.once

(***************************************************************************)
(* The WAV of a waveform.                                                  *)
(***************************************************************************)
\* the header of the WAV and the 16-bit values after it, read back as
\* signed numbers
HeaderBytes == 44

WrittenValue(wav, k) ==
    LET u == wav[HeaderBytes + 2 * k - 1] + 256 * wav[HeaderBytes + 2 * k]
    IN  IF u >= 32768 THEN u - 65536 ELSE u

\* C21: for every waveform, samples far outside [-1.0, 1.0] included, the
\* output of audio_to_wav is a header of 44 bytes for one channel, 16 bits
\* and 24000 Hz followed by two bytes per sample, and each 16-bit value
\* written lies in -32767..32767: 32767 for a sample of 1.0 or more, -32767
\* for a sample of -1.0 or less, and of the sign of the sample otherwise.
WavSamplesWithinRange ==
    calls = 1 =>
       LET wav == output.wav
       IN  /\ Len(wav) = HeaderBytes + 2 * Len(input)
           /\ SubSeq(wav, 23, 24) = << 1, 0 >>
           /\ SubSeq(wav, 25, 28) = << 192, 93, 0, 0 >>
           /\ SubSeq(wav, 35, 36) = << 16, 0 >>
           /\ \A k \in 1..Len(input) :
                 LET v == WrittenValue(wav, k)
                     s == input[k]
                 IN  /\ v \in -32767..32767
                     /\ (s.kind = "inf" \/ (s.kind = "finite" /\ s.milli >= 1000))
                           => v = 32767
                     /\ (s.kind = "-inf" \/ (s.kind = "finite" /\ s.milli <= -1000))
                           => v = -32767
                     /\ (s.kind = "finite" /\ s.milli \in 0..1000) => v >= 0
                     /\ (s.kind = "finite" /\ s.milli \in -1000..0) => v <= 0

\* the WAV of a sample far below the range and one far above it
WavOfSamplesFarOutside ==
    /\ calls = 1
    /\ input = << Finite(-1000 * Unit), Finite(1000 * Unit) >>
    /\ WrittenValue(output.wav, 1) = -32767
    /\ WrittenValue(output.wav, 2) = 32767

(***************************************************************************)
(* The style vector of infer.                                              *)
(***************************************************************************)
\* the sum of the values of the embedding at the positions j * StyleDim + i
\* for the frames j, i counted from 0
SumOfColumn(i) ==
    LET at(j) == input[j * StyleDim + i + 1]
        RECURSIVE upto(_)
        upto(j) == IF j < 0 THEN 0 ELSE at(j) + upto(j - 1)
    IN  upto(Frames - 1)

\* C22: for an embedding of Frames * StyleDim values, component i of the
\* style vector is the arithmetic mean of the values at the positions
\* j * StyleDim + i over the frames j; an embedding whose column i is
\* constantly i gives the style vector 0, 1, ...
StyleIsColumnMean ==
    (calls = 1 /\ Len(input) = Frames * StyleDim) =>
       /\ Len(output.style) = StyleDim
       /\ \A i \in 0..(StyleDim - 1) :
             LET c == output.style[i + 1]
             IN  /\ c.den > 0
                 /\ c.num * Frames = SumOfColumn(i) * c.den
                 /\ (\A j \in 0..(Frames - 1) : input[j * StyleDim + i + 1] = i)
                       => c.num = i * c.den

\* the style vector of the embedding whose column i is constantly i
StyleOfConstantColumns ==
    /\ calls = 1
    /\ Len(input) = Frames * StyleDim
    /\ \A i \in 0..(StyleDim - 1), j \in 0..(Frames - 1) : input[j * StyleDim + i + 1] = i
    /\ \A i \in 0..(StyleDim - 1) : output.style[i + 1].num = i * output.style[i + 1].den

\* C28: for an embedding whose length is not Frames * StyleDim, the style
\* vector has exactly StyleDim components, of which the first
\* min(StyleDim, length) are the first elements of the embedding and the
\* remaining ones are zero.
FallbackStyleIsPrefixThenZeros ==
    (calls = 1 /\ Len(input) # Frames * StyleDim) =>
       /\ Len(output.style) = StyleDim
       /\ \A k \in 1..StyleDim :
             LET c == output.style[k]
             IN  /\ c.den > 0
                 /\ k <= Min(StyleDim, Len(input)) => c.num = input[k] * c.den
                 /\ k > Min(StyleDim, Len(input)) => c.num = 0

(***************************************************************************)
(* Concurrent calls and the locks.                                         *)
(***************************************************************************)
\* C23: when calls for one key race, the cache never holds two entries of a
\* key, and the insertion of a call that ran inference leaves exactly one
\* entry of its key: the one this call wrote (its audio, stamped now), also
\* when another call inserted an entry of the key in between.  So after both
\* calls have returned the entry is that of the call that inserted last.
LastInsertWins ==
    [][ /\ \A i, j \in 1..Len(cache') : cache'[i].key = cache'[j].key => i = j
        /\ \A t \in Threads :
              (pc[t] = "put" /\ pc'[t] = "idle") =>
                 /\ returned'.result = Ok(audio[t], "inference")
                 /\ \E i \in 1..Len(cache') :
                       cache'[i] = [ key |-> req[t].cache_key, audio |-> audio[t],
                                     timestamp |-> now ] ]_vars

\* a call that missed (the key was not there at its lookup) and ran
\* inference is about to insert, and the cache holds an entry of its key
\* with another waveform: another call missed, ran inference and inserted in
\* between
BothMissedAndInferred ==
    \E t \in Threads :
       /\ pc[t] = "put"
       /\ ~popped[t]
       /\ audio[t] \in Waveforms
       /\ \E i \in 1..Len(cache) :
             /\ cache[i].key = req[t].cache_key
             /\ cache[i].audio # audio[t]

\* C24: a thread holds the cache lock only for its lookup and for its
\* insertion: not while it waits for or runs the phonemizer, waits for the
\* model, resolves the embedding or runs inference; and it is at the
\* insertion only with the waveform that inference returned.
CacheLockOnlyForLookupAndInsert ==
    \A t \in Threads :
       /\ cacheLock = t => pc[t] \in { "lookup", "put" }
       /\ pc[t] \in { "phonemizer_lock", "phonemize", "model_lock", "embedding", "infer",
                        "cache_lock2" } => cacheLock # t
       /\ pc[t] = "put" => audio[t] \in Waveforms

\* a thread is in inference while another holds the cache lock for a lookup
LookupDuringInference ==
    \E t, u \in Threads :
       /\ pc[t] = "infer"
       /\ pc[u] = "lookup"
       /\ cacheLock = u

\* C25: a thread that resolves the embedding or is in inference holds the
\* model lock, from the first to the second without a gap; so at most one
\* thread is at either, and available_voices, the other operation on the
\* store, never runs while a thread is between the two.
ModelLockSpansEmbeddingAndInference ==
    /\ \A t \in Threads : pc[t] \in { "embedding", "infer" } => modelLock = t
    /\ Cardinality({ t \in Threads : pc[t] \in { "embedding", "infer" } }) <= 1
    /\ returned.req.op = "available_voices" =>
          \A t \in Threads : pc[t] \notin { "embedding", "infer" }

\* a thread is in inference and the other waits for the model lock
WaitsForModelDuringInference ==
    \E t, u \in Threads :
       /\ pc[t] = "infer"
       /\ modelLock = t
       /\ pc[u] = "model_lock"

\* C26: no thread holds the model lock and the cache lock at the same time.
NeverModelAndCacheLock == \A t \in Threads : ~(modelLock = t /\ cacheLock = t)

\* C27: under fair scheduling every call of process_tts returns, whatever
\* the other threads do, and a thread that is in no call holds no lock: a
\* call that failed has released the locks it held.
EveryCallReturns ==
    /\ \A t \in Threads : (pc[t] # "idle") ~> (pc[t] = "idle")
    /\ [](\A t \in Threads :
             pc[t] = "idle" => (cacheLock # t /\ modelLock # t /\ phonemizerLock # t))

\* a call failed in the engine, the other thread waits for the model lock,
\* and the lock is free
FailedUnderModelLock ==
    /\ returned.result.kind = "InferenceError"
    /\ returned.result.cause = "engine"
    /\ modelLock = NoThread
    /\ \E u \in Threads : pc[u] = "model_lock"

(***************************************************************************)
(* The tokens handed to the engine.                                        *)
(***************************************************************************)
\* from the padding of line 95 to the call of infer at line 110
BeforeInference(t) == pc[t] \in { "model_lock", "embedding", "infer" }

\* C29: on a miss, the tokens a call hands to infer are the tokens of its
\* phoneme string with one 0 in front and one 0 behind: two more than the
\* tokenization, 0 first and last, the tokenization unchanged in between,
\* and 0, 0 when the tokenization is empty.
TokensArePaddedTokenization ==
    \A t \in Threads :
       BeforeInference(t) =>
          LET k == tokenize(phonemes[t])
              n == Len(tokens[t])
          IN  /\ n = Len(k) + 2
              /\ tokens[t][1] = 0
              /\ tokens[t][n] = 0
              /\ SubSeq(tokens[t], 2, n - 1) = k
              /\ (k = << >> => tokens[t] = << 0, 0 >>)

\* a call about to infer on a phoneme string of unknown characters only,
\* while another call waits with the tokens of two known characters
InfersOnEmptyTokenization ==
    \E t, u \in Threads :
       /\ pc[t] = "infer"
       /\ Len(phonemes[t]) > 0
       /\ tokens[t] = << 0, 0 >>
       /\ pc[u] = "model_lock"
       /\ Len(phonemes[u]) = 2
       /\ Len(tokens[u]) = 4

(***************************************************************************)
(* The shared KokoroTTS of the handler.                                    *)
(***************************************************************************)
\* C30: whatever the interleaving of the requests, KokoroTTS::new succeeds
\* at most once: a thread is in it only while it holds the guard of the
\* static and the static holds None, every request that got past get_tts
\* has the one KokoroTTS the static holds, and a failed initialization
\* leaves None in the static with the guard dropped.
AtMostOneKokoroTts ==
    /\ TTS_INSTANCE.built <= 1
    /\ TTS_INSTANCE.tts = TTS_INSTANCE.built
    /\ \A t \in Threads :
          /\ pc[t] = "new" => (TTS_INSTANCE.holder = t /\ TTS_INSTANCE.tts = NoTts)
          /\ pc[t] \notin { "idle", "get_tts", "new" } =>
                (req[t].tts # NoTts /\ req[t].tts = TTS_INSTANCE.tts)
    /\ returned.result.kind = "500" =>
          (TTS_INSTANCE.tts = NoTts /\ TTS_INSTANCE.holder # returned.thread)

\* after a request whose initialization failed, a thread is in
\* KokoroTTS::new again while the other waits for the static
RetriesWhileAnotherWaits ==
    \E t, u \in Threads :
       /\ calls = 3
       /\ pc[t] = "new"
       /\ pc[u] = "get_tts"

====
